---- MODULE Spec2Model ----
(***************************************************************************)
(* Ticketless entry system: the Apps Script backend (src/gas/Code.gs).     *)
(*                                                                         *)
(* The Attendees sheet is a table of rows read and written by fixed column *)
(* position.  A cell text is modelled as a sequence of characters (atoms): *)
(* <<>> is the empty string, " " the blank, "_" the underscore and "\n"    *)
(* the line break, so that truthiness, trim(), string concatenation and    *)
(* the newline-joined re-entry history behave as in the script.  A Date    *)
(* cell is <<t>> with t the clock reading in ticks; an empty one is <<>>.  *)
(***************************************************************************)
EXTENDS Integers, Sequences, FiniteSets, TLC

VARIABLES
    rows,       \* Attendees sheet, data rows only (sheet row k+1 is rows[k])
    ecSheet,    \* ECData sheet, header row included (<<>>: getLastRow() = 0)
    mmSheet,    \* MemberMaster sheet, header row included
    now,        \* the script clock, in ticks
    call,       \* the operation that ran last and its argument
    result,     \* what that operation returned
    successes,  \* history: per row position, the check-in times the SUCCESS
                \* outcomes for that row carried, in order
    warnings,   \* history: per row position, the WARNING outcomes so far
    mailed,     \* history: per row position, the e-mails MailApp accepted
    inflight,   \* the executions of check-in requests that run side by side:
                \* how far each is, what it read and what it returned
    ui          \* the scanning page in the browser: its React state, what its
                \* last render saw, its timer, callbacks and requests

vars ==
    <<rows, ecSheet, mmSheet, now, call, result, successes, warnings, mailed,
      inflight, ui>>

----------------------------------------------------------------------------
(* Bounds of the model *)

MaxRows == 5          \* rows the Attendees sheet may hold
MaxLines == 2         \* order lines of an ECData sheet (reconciliation runs)
MaxTime == 1          \* last clock reading
MaxHist == 2          \* re-entry entries the sheet may collect in all
TicksPerSecond == 1   \* clock ticks in one second of the formatted time

----------------------------------------------------------------------------
(* Strings *)

Truthy(s) == s # <<>>

RECURSIVE TrimLeft(_)
TrimLeft(s) ==
    IF s # <<>> /\ Head(s) = " " THEN TrimLeft(Tail(s)) ELSE s

RECURSIVE TrimRight(_)
TrimRight(s) ==
    IF s # <<>> /\ s[Len(s)] = " " THEN TrimRight(SubSeq(s, 1, Len(s) - 1)) ELSE s

\* String.prototype.trim()
Trim(s) == TrimRight(TrimLeft(s))

\* x || d on strings
OrElse(s, d) == IF Truthy(s) THEN s ELSE d

\* Utilities.formatDate(date, tz, 'yyyy-MM-dd HH:mm:ss'): the reading cut to
\* whole seconds, as one printable atom
FormatDate(t) == ToString(t \div TicksPerSecond)

\* the entries of a newline-joined history cell
RECURSIVE SplitLines(_)
SplitLines(s) ==
    IF s = <<>> THEN <<>>
    ELSE IF s[Len(s)] = "\n" THEN SplitLines(SubSeq(s, 1, Len(s) - 1))
    ELSE IF Len(s) >= 2 /\ s[Len(s) - 1] = "\n"
         THEN Append(SplitLines(SubSeq(s, 1, Len(s) - 2)), s[Len(s)])
    ELSE <<s[Len(s)]>>

\* An object literal looked up by a name it does not hold itself answers
\* with the member of Object.prototype of that name, a function, if there
\* is one (TICKET_CONFIG, Code.gs 20-35 and 549; breakdown, 313 and 326)
ObjectPrototypeKeys ==
    {<<"constructor">>, <<"toString">>, <<"valueOf">>, <<"hasOwnProperty">>}

InheritedMember == <<"function">>

----------------------------------------------------------------------------
(* Outcomes *)

Undefined == <<"undefined">>

\* Code.gs 238-241 and 353-356: an object without a status field
NotProvidedOutcome(msg) ==
    [success |-> FALSE, status |-> "undefined", message |-> msg,
     name |-> Undefined, id |-> Undefined, checkInTime |-> "undefined",
     ticketType |-> Undefined, startTime |-> Undefined]

\* Code.gs 297-301 and 429-433
\* (faulty variant: the status field left out, as in the not-provided outcome)
ErrorOutcomeNoStatus(msg) == NotProvidedOutcome(msg)

ErrorOutcome(msg) ==
    [success |-> FALSE, status |-> "ERROR", message |-> msg,
     name |-> Undefined, id |-> Undefined, checkInTime |-> "undefined",
     ticketType |-> Undefined, startTime |-> Undefined]

\* Code.gs 274 and 422: formatDate(new Date(checkInTime), ...)
\* (faulty variant: the time of the attempt is reported)
WarningTimeOfAttempt(row, nowStr) == nowStr

WarningTime(row, nowStr) == FormatDate(row.checkInTime[1])

\* Code.gs 268-277 and 416-425

WarningOutcome(row, nowStr) ==
    [success |-> FALSE, status |-> "WARNING", message |-> "Already checked in",
     name |-> row.name, id |-> row.id,
     checkInTime |-> WarningTime(row, nowStr),
     ticketType |-> OrElse(row.ticketType, <<"StandardPass">>),
     startTime |-> row.startTime]

\* Code.gs 283-292 and 383-392
SuccessOutcome(row, nowStr) ==
    [success |-> TRUE, status |-> "SUCCESS", message |-> "Check-in successful",
     name |-> row.name, id |-> row.id, checkInTime |-> nowStr,
     ticketType |-> OrElse(row.ticketType, <<"StandardPass">>),
     startTime |-> row.startTime]

----------------------------------------------------------------------------
(* Check-in engine *)

\* Code.gs 265 and 413: reEntryHistory ? `${reEntryHistory}\n${nowStr}` : nowStr
\* (faulty variants: the old entries dropped; the new entry put first)
NewHistoryOverwrite(reEntryHistory, nowStr) == <<nowStr>>

NewHistoryPrepend(reEntryHistory, nowStr) ==
    IF Truthy(reEntryHistory) THEN <<nowStr, "\n">> \o reEntryHistory ELSE <<nowStr>>

NewHistory(reEntryHistory, nowStr) ==
    IF Truthy(reEntryHistory) THEN reEntryHistory \o <<"\n", nowStr>> ELSE <<nowStr>>

\* Code.gs 281 and 381: sheet.getRange(i + 1, 5).setValue(now)
SetCheckInTime(data, i, t) == [data EXCEPT ![i].checkInTime = <<t>>]

\* Code.gs 266 and 414: sheet.getRange(i + 1, 9).setValue(newHistory)
\* (faulty variant: a re-entry also stamps the check-in time anew)
SetHistoryAndRestamp(data, i, h) ==
    [data EXCEPT ![i].reEntryHistory = h, ![i].checkInTime = <<now>>]

SetHistory(data, i, h) == [data EXCEPT ![i].reEntryHistory = h]

\* Code.gs 248-294: the scan for the first row whose token equals the input
\* (0: the loop ended without a match)
\* (faulty variant: the loop runs to the end and keeps the last match)
TokenScanLast(data, token, i) ==
    LET found == {k \in i..Len(data) : data[k].token = token}
    IN  IF found = {} THEN 0 ELSE CHOOSE x \in found : \A y \in found : x >= y

RECURSIVE TokenScan(_, _, _)
TokenScan(data, token, i) ==
    IF i > Len(data) THEN 0
    ELSE IF data[i].token = token THEN i
    ELSE TokenScan(data, token, i + 1)

\* Code.gs 366-406: the scan by id; stops at the first matching open row and
\* otherwise remembers the last matching checked-in row
\* (faulty variant: the scan does not stop at the first open row but goes on to the
\* last one)
IdScanLastOpen(data, memberId, i, foundCheckedInIndex) ==
    LET open == {k \in i..Len(data) :
                    data[k].id = memberId /\ ~Truthy(data[k].checkInTime)}
        done == {k \in i..Len(data) :
                    data[k].id = memberId /\ Truthy(data[k].checkInTime)}
        Last(S) == CHOOSE x \in S : \A y \in S : x >= y
    IN  [open |-> IF open = {} THEN 0 ELSE Last(open),
         foundCheckedInIndex |->
             IF done = {} THEN foundCheckedInIndex ELSE Last(done)]

RECURSIVE IdScan(_, _, _, _)
IdScan(data, memberId, i, foundCheckedInIndex) ==
    IF i > Len(data) THEN [open |-> 0, foundCheckedInIndex |-> foundCheckedInIndex]
    ELSE IF data[i].id = memberId
         THEN IF ~Truthy(data[i].checkInTime)
              THEN [open |-> i, foundCheckedInIndex |-> foundCheckedInIndex]
              ELSE IdScan(data, memberId, i + 1, i)
    ELSE IdScan(data, memberId, i + 1, foundCheckedInIndex)

Bump(f, i) == [f EXCEPT ![i] = @ + 1]

\* Code.gs 263 and 409: if (checkInTime), if (foundCheckedIn)
\* (faulty variant: the test is skipped and every match is a first check-in)
AlreadyCheckedInNever(row) == FALSE

AlreadyCheckedIn(row) == Truthy(row.checkInTime)

RECURSIVE ReEntries(_, _)
ReEntries(data, i) ==
    IF i > Len(data) THEN 0
    ELSE Len(SplitLines(data[i].reEntryHistory)) + ReEntries(data, i + 1)

\* what the sheet does with the setValue() calls of one request, first call
\* first: "ok", the cell is written; "fail", the call throws and the cell
\* stays as it is
WriteOutcomes == {"ok", "fail"}
AllWritten == <<"ok", "ok">>

\* Code.gs 266, 281, 381 and 414: the one setValue() call of a check-in
\* (faulty variant: a call that threw is made once more)
WriteCompletesOnRetry(writes) == writes[1] = "ok" \/ writes[2] = "ok"

WriteCompletes(writes) == writes[1] = "ok"

\* Code.gs 470-475: what doGet makes of an exception
CaughtOutcome(msg) ==
    [success |-> FALSE, status |-> "undefined", message |-> msg,
     name |-> Undefined, id |-> Undefined, checkInTime |-> "undefined",
     ticketType |-> Undefined, startTime |-> Undefined]

\* Code.gs 237 and 352: if (!token), if (!memberId)
\* (faulty variant: the test is left out)
NotProvidedNever(input) == FALSE

NotProvided(input) == ~Truthy(input)

\* what a check-in that resolved to row i (0: to none) of data, the values
\* it read by getDataRange().getValues(), does to the sheet and returns, the
\* sheet answering its setValue() call as writes says
CheckInOn(data, i, notFoundMsg, writes) ==
    IF i = 0
    THEN /\ result' = ErrorOutcome(notFoundMsg)
         /\ UNCHANGED <<rows, successes, warnings>>
    ELSE IF ~WriteCompletes(writes)
    THEN /\ result' = CaughtOutcome("Service error: Spreadsheets")
         /\ UNCHANGED <<rows, successes, warnings>>
    ELSE IF AlreadyCheckedIn(data[i])
    THEN /\ ReEntries(rows, 1) < MaxHist
         /\ rows' = SetHistory(rows, i,
                        NewHistory(data[i].reEntryHistory, FormatDate(now)))
         /\ result' = WarningOutcome(data[i], FormatDate(now))
         /\ warnings' = Bump(warnings, i)
         /\ UNCHANGED successes
    ELSE /\ rows' = SetCheckInTime(rows, i, now)
         /\ result' = SuccessOutcome(data[i], FormatDate(now))
         /\ successes' = [successes EXCEPT ![i] = Append(@, FormatDate(now))]
         /\ UNCHANGED warnings

\* a call that runs alone decides on the sheet as it is when it writes
CheckInEffect(i, notFoundMsg, writes) == CheckInOn(rows, i, notFoundMsg, writes)

\* Code.gs 236-302: what the call does to the sheet and returns
checkInUserBody(token, writes) ==
    IF NotProvided(token)
    THEN /\ result' = NotProvidedOutcome("Token not provided")
         /\ UNCHANGED <<rows, successes, warnings>>
    ELSE CheckInEffect(TokenScan(rows, token, 1), "Invalid ticket", writes)

\* Code.gs 236-302
checkInUser(token) ==
    /\ call' = [op |-> "checkInUser", arg |-> token]
    /\ checkInUserBody(token, AllWritten)
    /\ UNCHANGED <<ecSheet, mmSheet, now, mailed, inflight, ui>>

\* Code.gs 362-409: the row a manualCheckIn acts on: the first open match,
\* else the last checked-in match, else none (0)
\* (faulty variant: the first checked-in match is kept instead of the last)
IdResolveFirstFound(data, memberId) ==
    LET s == IdScan(data, memberId, 1, 0)
        done == {k \in 1..Len(data) :
                    data[k].id = memberId /\ Truthy(data[k].checkInTime)}
    IN  IF s.open # 0 THEN s.open
        ELSE IF done = {} THEN 0
        ELSE CHOOSE x \in done : \A y \in done : x <= y

IdResolve(data, memberId) ==
    LET s == IdScan(data, memberId, 1, 0)
    IN  IF s.open # 0 THEN s.open ELSE s.foundCheckedInIndex

\* Code.gs 351-434: what the call does to the sheet and returns
manualCheckInBody(memberId, writes) ==
    IF NotProvided(memberId)
    THEN /\ result' = NotProvidedOutcome("Member ID not provided")
         /\ UNCHANGED <<rows, successes, warnings>>
    ELSE CheckInEffect(IdResolve(rows, memberId), "Member ID not found", writes)

\* Code.gs 351-434
manualCheckIn(memberId) ==
    /\ call' = [op |-> "manualCheckIn", arg |-> memberId]
    /\ manualCheckInBody(memberId, AllWritten)
    /\ UNCHANGED <<ecSheet, mmSheet, now, mailed, inflight, ui>>

\* the clock moves between requests
Tick ==
    /\ now < MaxTime
    /\ now' = now + 1
    /\ call' = [op |-> "Tick", arg |-> <<>>]
    /\ UNCHANGED <<rows, ecSheet, mmSheet, result, successes, warnings, mailed, inflight, ui>>

----------------------------------------------------------------------------
(* Tickets *)

\* Code.gs 75-86: the SHA-256 digest in hexadecimal, taken to be injective:
\* the digest of a text is that text under a mark
generateHash(input) == <<"#">> \o input

\* Code.gs 91-95: `${id}_${rowNumber}_${timestamp}` hashed
\* (faulty variant: the row number is left out of the hashed text)
generateTokenWithoutRow(id, rowNumber, timestamp) ==
    generateHash(id \o <<"_", ToString(timestamp)>>)

generateToken(id, rowNumber, timestamp) ==
    generateHash(id \o <<"_", ToString(rowNumber), "_", ToString(timestamp)>>)

\* what may happen to one row of a sendTickets run
SendOutcomes == {"ok", "qrfail", "mailfail"}

\* Code.gs 129: emailSent === true || emailSent === 'TRUE'
\* (faulty variant: the sent mark is not looked at)
AlreadySentNever(row) == FALSE

AlreadySent(row) == row.emailSent = "true" \/ row.emailSent = "TRUE"

\* Code.gs 134: if (!id || !name || !email)
\* (faulty variant: the test is left out)
MissingDataNever(row) == FALSE

MissingData(row) == ~Truthy(row.id) \/ ~Truthy(row.name) \/ ~Truthy(row.email)

\* Code.gs 141: if (!token)
\* (faulty variant: a token is made for every row the run sends for)
NeedsTokenAlways(row) == TRUE

NeedsToken(row) == ~Truthy(row.token)

\* Code.gs 118-221: the loop body for data row i, then the rest of the loop;
\* env[i] is what the QR service and the mail service do for row i, mailedTo
\* the rows MailApp.sendEmail has returned for
RECURSIVE SendLoop(_, _, _, _, _, _, _)
SendLoop(data, i, env, t, sentCount, errorCount, mailedTo) ==
    IF i > Len(data)
    THEN [rows |-> data, sent |-> sentCount, errors |-> errorCount,
          mailedTo |-> mailedTo]
    ELSE LET row == data[i] IN
         IF AlreadySent(row)
         THEN SendLoop(data, i + 1, env, t, sentCount, errorCount, mailedTo)
         ELSE IF MissingData(row)
         THEN SendLoop(data, i + 1, env, t, sentCount, errorCount + 1, mailedTo)
         ELSE LET withToken ==
                      IF NeedsToken(row)
                      THEN [data EXCEPT ![i].token = generateToken(row.id, i + 1, t)]
                      ELSE data
              IN  IF env[i] = "ok"
                  THEN SendLoop([withToken EXCEPT ![i].emailSent = "true"],
                                i + 1, env, t, sentCount + 1, errorCount,
                                mailedTo \cup {i})
                  ELSE SendLoop(withToken, i + 1, env, t, sentCount,
                                errorCount + 1, mailedTo)

\* the services matter only for the rows a run reaches them for
Sendable(row) ==
    ~AlreadySent(row) /\ Truthy(row.id) /\ Truthy(row.name) /\ Truthy(row.email)

SendEnvs(data) ==
    { env \in [1..Len(data) -> SendOutcomes] :
        \A i \in 1..Len(data) : ~Sendable(data[i]) => env[i] = "ok" }

\* Code.gs 110-231
sendTickets(env) ==
    LET run == SendLoop(rows, 1, env, now, 0, 0, {}) IN
    /\ call' = [op |-> "sendTickets", arg |-> <<>>]
    /\ rows' = run.rows
    /\ result' = [sent |-> run.sent, errors |-> run.errors]
    /\ mailed' = [i \in 1..MaxRows |->
                     IF i \in run.mailedTo THEN mailed[i] + 1 ELSE mailed[i]]
    /\ UNCHANGED <<ecSheet, mmSheet, now, successes, warnings, inflight, ui>>

----------------------------------------------------------------------------
(* Dashboard *)

\* Code.gs 316-338: one pass of the loop over the rows from i on.  breakdown
\* is an object literal too: for a ticketType that names a member of
\* Object.prototype, breakdown[ticketType] is that member, so no entry is
\* made and the counts go to the member, not to breakdown
RECURSIVE DashboardLoop(_, _, _, _, _)
DashboardLoop(data, i, total, checkedIn, breakdown) ==
    IF i > Len(data)
    THEN [total |-> total, checkedIn |-> checkedIn,
          notCheckedIn |-> total - checkedIn, breakdown |-> breakdown]
    ELSE LET row == data[i]
             ticketType == OrElse(row.ticketType, <<"Unknown">>)
             b0 == IF ticketType \in DOMAIN breakdown
                   THEN breakdown
                   ELSE (ticketType :> [total |-> 0, checkedIn |-> 0]) @@ breakdown
             b1 == [b0 EXCEPT ![ticketType].total = @ + 1]
             b2 == IF Truthy(row.checkInTime)
                   THEN [b1 EXCEPT ![ticketType].checkedIn = @ + 1]
                   ELSE b1
         IN  IF Truthy(row.id)
             THEN DashboardLoop(data, i + 1, total + 1,
                      IF Truthy(row.checkInTime) THEN checkedIn + 1 ELSE checkedIn,
                      IF ticketType \in ObjectPrototypeKeys THEN breakdown ELSE b2)
             ELSE DashboardLoop(data, i + 1, total, checkedIn, breakdown)

\* Code.gs 50: the header row of the Attendees sheet
HeaderRow ==
    [id |-> <<"ID">>, name |-> <<"Name">>, email |-> <<"Email">>,
     token |-> <<"Token">>, checkInTime |-> <<"CheckInTime">>,
     emailSent |-> "EmailSent", ticketType |-> <<"TicketType">>,
     startTime |-> <<"StartTime">>, reEntryHistory |-> <<"ReEntryHistory">>,
     inviter |-> <<"Inviter">>, note |-> <<"Note">>]

\* the empty object {}
EmptyBreakdown == [t \in {} |-> [total |-> 0, checkedIn |-> 0]]

\* Code.gs 311-345
\* (faulty variants: the loop starts at the header row; the test of the id
\* is left out; the counters outlive the call)
DashboardFromHeaderRow(data) ==
    DashboardLoop(<<HeaderRow>> \o data, 1, 0, 0, EmptyBreakdown)

DashboardOfEveryRow(data) ==
    DashboardLoop([k \in 1..Len(data) |-> [data[k] EXCEPT !.id = <<"x">>]],
                  1, 0, 0, EmptyBreakdown)

DashboardWithMemory(data) ==
    LET d == DashboardLoop(data, 1, 0, 0, EmptyBreakdown)
    IN  IF call.op = "getDashboardData"
        THEN [d EXCEPT !.total = @ + result.total,
                       !.notCheckedIn = @ + result.total]
        ELSE d

Dashboard(data) == DashboardLoop(data, 1, 0, 0, EmptyBreakdown)

\* Code.gs 307-346
getDashboardData ==
    /\ call' = [op |-> "getDashboardData", arg |-> <<>>]
    /\ result' = Dashboard(rows)
    /\ UNCHANGED <<rows, ecSheet, mmSheet, now, successes, warnings, mailed, inflight, ui>>

----------------------------------------------------------------------------
(* Web app endpoints *)

\* Code.gs 462-466: the default case of the switch
InvalidAction ==
    [success |-> FALSE, status |-> "undefined", message |-> "Invalid action",
     name |-> Undefined, id |-> Undefined, checkInTime |-> "undefined",
     ticketType |-> Undefined, startTime |-> Undefined]

\* the function a request of this action is handed to
Handler(action) ==
    IF action = "checkIn" THEN "checkInUser"
    ELSE IF action = "manualCheckIn" THEN "manualCheckIn"
    ELSE IF action = "dashboard" THEN "getDashboardData"
    ELSE "default"

\* Code.gs 441-477: the switch on e.parameter.action inside the try; param
\* is e.parameter.token or e.parameter.memberId, <<>> when the request has
\* none
doGetBody(action, param, writes) ==
    IF action = "checkIn" THEN checkInUserBody(param, writes)
    ELSE IF action = "manualCheckIn" THEN manualCheckInBody(param, writes)
    ELSE IF action = "dashboard"
    THEN /\ result' = Dashboard(rows)
         /\ UNCHANGED <<rows, successes, warnings>>
    ELSE /\ result' = InvalidAction
         /\ UNCHANGED <<rows, successes, warnings>>

\* Code.gs 482-484: return doGet(e)
\* (faulty variant: the parameters of the request are not handed on)
doPostBodyWithoutParameter(action, param, writes) ==
    doGetBody(action, <<>>, writes)

doPostBody(action, param, writes) == doGetBody(action, param, writes)

Request(method, action, param, writes) ==
    [op |-> Handler(action), arg |-> param, method |-> method,
     action |-> action, writes |-> writes]

\* Code.gs 441-477
doGet(action, param, writes) ==
    /\ call' = Request("GET", action, param, writes)
    /\ doGetBody(action, param, writes)
    /\ UNCHANGED <<ecSheet, mmSheet, now, mailed, inflight, ui>>

\* Code.gs 482-484
doPost(action, param, writes) ==
    /\ call' = Request("POST", action, param, writes)
    /\ doPostBody(action, param, writes)
    /\ UNCHANGED <<ecSheet, mmSheet, now, mailed, inflight, ui>>

----------------------------------------------------------------------------
(* Reconciliation *)

\* a Quantity cell: a number, or a text that is none (the empty cell too)
NumCell(n) == [kind |-> "num", n |-> n]
TextCell == [kind |-> "text", n |-> 0]

\* Code.gs 529: parseInt(cell) || 1
Quantity(cell) == IF cell.kind = "num" /\ cell.n # 0 THEN cell.n ELSE 1

\* Code.gs 498 and 504: the header rows the script writes
EcHeader ==
    [id |-> <<"ID">>, name |-> <<"Name">>, ticketType |-> <<"TicketType">>,
     quantity |-> TextCell]
MmHeader == [id |-> <<"ID">>, name |-> <<"Name">>, email |-> <<"Email">>]

\* Code.gs 20-35: TICKET_CONFIG[ticketType] || '11:00-12:00'
Evening == <<"18:30-19:00">>
Morning == <<"11:00-12:00">>

TICKET_CONFIG(ticketType) ==
    IF ticketType \in {<<"VIP Pass">>, <<"PriorityPass">>, <<"FreeGuest">>,
                       <<"VIP">>, <<"15400">>, <<"Invitation">>}
    THEN Evening
    ELSE IF ticketType \in ObjectPrototypeKeys THEN InheritedMember
    ELSE Morning

\* Code.gs 21-26: the keys of TICKET_CONFIG under "New Ticket Types"
CanonicalTypes ==
    {<<"VIP Pass">>, <<"PriorityPass">>, <<"StandardPass">>, <<"GuestPass">>,
     <<"FreeGuest">>}

\* Code.gs 28-34: the keys of TICKET_CONFIG under "Legacy/Price Mappings"
LegacyLabels ==
    {<<"VIP">>, <<"General">>, <<"15400">>, <<"13200">>, <<"1100">>,
     <<"Invitation">>}

\* Code.gs 534-547: the legacy and price labels mapped to the new names.
\* The two Japanese labels of lines 543 and 545 are written in ASCII here:
\* "FreeInvitee" for the free-invitee label, "ExecutiveInvite" for the
\* executive-invitation label.
Normalize(ticketTypeInput) ==
    IF ticketTypeInput \in {<<"15400">>, <<"15,400">>} THEN <<"PriorityPass">>
    ELSE IF ticketTypeInput \in {<<"13200">>, <<"13,200">>} THEN <<"StandardPass">>
    ELSE IF ticketTypeInput \in {<<"1100">>, <<"1,100">>, <<"Guest">>}
         THEN <<"GuestPass">>
    ELSE IF ticketTypeInput \in {<<"Invitation">>, <<"FreeInvitee">>}
         THEN <<"FreeGuest">>
    ELSE IF ticketTypeInput = <<"ExecutiveInvite">> THEN <<"VIP Pass">>
    ELSE ticketTypeInput

\* Code.gs 551 and 577: `${id}_${ticketType}`
CompositeKey(id, ticketType) == id \o <<"_">> \o ticketType

\* Code.gs 513-517: the e-mail the directory holds for id, the last entry
\* winning; <<>> when it holds none (emailMap.get(id) || '')
RECURSIVE EmailLookup(_, _, _, _)
EmailLookup(masterData, i, id, found) ==
    IF i > Len(masterData) THEN found
    ELSE IF Truthy(Trim(masterData[i].id)) /\ Trim(masterData[i].id) = id
         THEN EmailLookup(masterData, i + 1, id, Trim(masterData[i].email))
    ELSE EmailLookup(masterData, i + 1, id, found)

\* position of key in the insertion-ordered map (0: absent)
RECURSIVE KeyIndex(_, _, _)
KeyIndex(map, key, i) ==
    IF i > Len(map) THEN 0
    ELSE IF map[i].key = key THEN i
    ELSE KeyIndex(map, key, i + 1)

\* Code.gs 525-566: requiredTickets and ticketInfo after the lines from i on,
\* as one map in insertion order
RECURSIVE RequiredTickets(_, _, _)
RequiredTickets(ecData, i, map) ==
    IF i > Len(ecData) THEN map
    ELSE LET id == Trim(ecData[i].id)
             ticketType ==
                 Normalize(Trim(OrElse(ecData[i].ticketType, <<"StandardPass">>)))
             quantity == Quantity(ecData[i].quantity)
             compositeKey == CompositeKey(id, ticketType)
             at == KeyIndex(map, compositeKey, 1)
         IN  IF ~Truthy(id) THEN RequiredTickets(ecData, i + 1, map)
             ELSE IF at # 0
             THEN RequiredTickets(ecData, i + 1,
                      [map EXCEPT ![at].neededQty = @ + quantity])
             ELSE RequiredTickets(ecData, i + 1,
                      Append(map, [key |-> compositeKey, neededQty |-> quantity,
                                   id |-> id, name |-> ecData[i].name,
                                   ticketType |-> ticketType,
                                   startTime |-> TICKET_CONFIG(ticketType)]))

\* Code.gs 573-580: the key an existing row is counted under
ExistingKey(row) ==
    CompositeKey(Trim(row.id), Trim(OrElse(row.ticketType, <<"StandardPass">>)))

\* Code.gs 573-580 and 589: existingCounts.get(key) || 0
RECURSIVE ExistingCount(_, _, _)
ExistingCount(existingData, i, key) ==
    IF i > Len(existingData) THEN 0
    ELSE (IF Truthy(Trim(existingData[i].id)) /\ ExistingKey(existingData[i]) = key
          THEN 1 ELSE 0) + ExistingCount(existingData, i + 1, key)

\* Code.gs 611-621: one synthesized row
\* (faulty variant: the row is made as one whose ticket has gone out)
NewRowMarkedSent(info, email) ==
    [id |-> info.id, name |-> info.name, email |-> email, token |-> <<>>,
     checkInTime |-> <<>>, emailSent |-> "TRUE",
     ticketType |-> info.ticketType, startTime |-> info.startTime,
     reEntryHistory |-> <<>>, inviter |-> <<>>, note |-> <<>>]

NewRow(info, email) ==
    [id |-> info.id,
     name |-> IF info.ticketType = <<"GuestPass">>
              THEN info.name \o <<" (Guest)">> ELSE info.name,
     email |-> email, token |-> <<>>, checkInTime |-> <<>>, emailSent |-> "",
     ticketType |-> info.ticketType, startTime |-> info.startTime,
     reEntryHistory |-> <<>>, inviter |-> <<>>,
     note |-> IF info.ticketType = <<"GuestPass">> THEN <<"Guest Ticket">> ELSE <<>>]

Copies(n, row) == [k \in 1..n |-> row]

\* Code.gs 587-624: rowsToAdd and the two counters after the keys from i on
RECURSIVE GenerateMissing(_, _, _, _, _)
GenerateMissing(map, i, existingData, masterData, acc) ==
    IF i > Len(map) THEN acc
    ELSE LET info == map[i]
             haveQty == ExistingCount(existingData, 1, info.key)
             toCreate == info.neededQty - haveQty
             email == EmailLookup(masterData, 1, info.id, <<>>)
         IN  IF toCreate > 0
             THEN GenerateMissing(map, i + 1, existingData, masterData,
                      [rowsToAdd |-> acc.rowsToAdd \o Copies(toCreate, NewRow(info, email)),
                       matchedCount |-> acc.matchedCount + (IF Truthy(email) THEN 1 ELSE 0),
                       missingEmailCount |->
                           acc.missingEmailCount + (IF Truthy(email) THEN 0 ELSE 1)])
             ELSE GenerateMissing(map, i + 1, existingData, masterData, acc)

\* Code.gs 509-624 on the three tables (header rows dropped)
Reconcile(ecData, masterData, existingData) ==
    GenerateMissing(RequiredTickets(ecData, 1, <<>>), 1, existingData, masterData,
                    [rowsToAdd |-> <<>>, matchedCount |-> 0, missingEmailCount |-> 0])

\* Code.gs 627-630: getRange(getLastRow() + 1, 1, rowsToAdd.length, 11)
\* .setValues(rowsToAdd)
\* (faulty variant: the block is written from the last row on, over it)
AppendRowsFromLastRow(data, rowsToAdd) ==
    IF rowsToAdd = <<>> \/ data = <<>> THEN data \o rowsToAdd
    ELSE SubSeq(data, 1, Len(data) - 1) \o rowsToAdd

AppendRows(data, rowsToAdd) == data \o rowsToAdd

\* Code.gs 629: setValues() is handed a value that is no text, number, date
\* or boolean; it may store the value's text, or refuse the whole block
NotCellValues(rowsToAdd) ==
    \E k \in 1..Len(rowsToAdd) : rowsToAdd[k].startTime = InheritedMember

\* Code.gs 496 and 503: getLastRow() === 0, of a sheet that was there
\* without a row or that insertSheet() has just made
\* (faulty variant: the test is left out)
SheetIsEmptyNever(sheet) == FALSE

SheetIsEmpty(sheet) == sheet = <<>>

\* Code.gs 510-512 and 525-526: the loops skip the header row
DataRows(sheet) == IF sheet = <<>> THEN <<>> ELSE Tail(sheet)

\* Code.gs 489-635
syncECData ==
    /\ call' = [op |-> "syncECData", arg |-> <<>>]
    /\ IF SheetIsEmpty(ecSheet)
       THEN /\ ecSheet' = <<EcHeader>>
            /\ result' = [message |-> "Please fill ECData", added |-> 0,
                          matched |-> 0, missing |-> 0]
            /\ UNCHANGED <<rows, mmSheet>>
       ELSE IF SheetIsEmpty(mmSheet)
       THEN /\ mmSheet' = <<MmHeader>>
            /\ result' = [message |-> "Please fill MemberMaster", added |-> 0,
                          matched |-> 0, missing |-> 0]
            /\ UNCHANGED <<rows, ecSheet>>
       ELSE LET r == Reconcile(DataRows(ecSheet), DataRows(mmSheet), rows) IN
            /\ Len(rows) + Len(r.rowsToAdd) <= MaxRows
            /\ \/ /\ rows' = AppendRows(rows, r.rowsToAdd)
                  /\ result' = [message |-> "Synced", added |-> Len(r.rowsToAdd),
                                matched |-> r.matchedCount,
                                missing |-> r.missingEmailCount]
               \/ /\ NotCellValues(r.rowsToAdd)
                  /\ result' = [message |-> "Exception", added |-> 0,
                                matched |-> 0, missing |-> 0]
                  /\ UNCHANGED rows
            /\ UNCHANGED <<ecSheet, mmSheet>>
    /\ UNCHANGED <<now, successes, warnings, mailed, inflight, ui>>

----------------------------------------------------------------------------
(* The system: every operation runs to completion before the next *)

\* a row entered by hand: no token, not checked in, nothing sent
ManualRow(id, name, email, ticketType) ==
    [id |-> id, name |-> name, email |-> email, token |-> <<>>,
     checkInTime |-> <<>>, emailSent |-> "", ticketType |-> ticketType,
     startTime |-> TICKET_CONFIG(ticketType), reEntryHistory |-> <<>>,
     inviter |-> <<>>, note |-> <<>>]

OrderLine(id, name, ticketType, quantity) ==
    [id |-> id, name |-> name, ticketType |-> ticketType, quantity |-> quantity]

Member(id, name, email) == [id |-> id, name |-> name, email |-> email]

\* a row whose ticket went out in a run before the clock's origin, its sent
\* mark read back as the text 'TRUE'
SentRow(id, name, email, ticketType, rowNumber) ==
    [ManualRow(id, name, email, ticketType) EXCEPT
        !.token = generateToken(id, rowNumber, -1), !.emailSent = "TRUE"]

InitStores ==
    { <<>>,
      <<ManualRow(<<"A">>, <<"Alice">>, <<"a@x">>, <<"PriorityPass">>)>>,
      <<SentRow(<<"A">>, <<"Alice">>, <<"a@x">>, <<"PriorityPass">>, 2)>> }

\* two orders: two tickets for A at the 15400 price; one for A and a guest
\* ticket for B, who is not in the directory
InitEcSheets ==
    { <<EcHeader,
        OrderLine(<<"A">>, <<"Alice">>, <<" ", "15400">>, NumCell(2))>>,
      <<EcHeader,
        OrderLine(<<"A">>, <<"Alice">>, <<"PriorityPass">>, NumCell(1)),
        OrderLine(<<"B">>, <<"Bob">>, <<"Guest">>, TextCell)>> }

InitMmSheet == <<MmHeader, Member(<<"A", " ">>, <<"Alice">>, <<"a@x">>)>>

\* the tokens a scanner may submit: those issued, a foreign one, none
TokenInputs == {rows[i].token : i \in 1..Len(rows)} \cup {<<>>, <<"bogus">>}

\* the member ids the desk may type
IdInputs == {<<"A">>, <<"B">>, <<"Z">>, <<>>}

NoCall == [op |-> "none", arg |-> <<>>]

Init ==
    /\ rows \in InitStores
    /\ ecSheet \in InitEcSheets
    /\ mmSheet = InitMmSheet
    /\ now = 0
    /\ call = NoCall
    /\ result = [message |-> "none"]
    /\ successes = [i \in 1..MaxRows |-> <<>>]
    /\ warnings = [i \in 1..MaxRows |-> 0]
    /\ mailed = [i \in 1..MaxRows |-> 0]
    /\ inflight = <<>>
    /\ ui = <<>>

Next ==
    \/ \E token \in TokenInputs : checkInUser(token)
    \/ \E memberId \in IdInputs : manualCheckIn(memberId)
    \/ \E env \in SendEnvs(rows) : sendTickets(env)
    \/ getDashboardData
    \/ syncECData
    \/ Tick

Spec == Init /\ [][Next]_vars

----------------------------------------------------------------------------
(* Reconciliation runs on their own, over many order sheets *)

\* order lines: price and legacy labels, the same key under two labels,
\* quantities above one, below one and not a number, a blank label, no
\* label, no id, ids and labels with an underscore, a label that names a
\* member of Object.prototype
OrderLines ==
    { OrderLine(<<"A">>, <<"Alice">>, <<"15400">>, NumCell(2)),
      OrderLine(<<"A", " ">>, <<"Alice">>, <<"PriorityPass">>, NumCell(1)),
      OrderLine(<<"A">>, <<"Alice">>, <<"PriorityPass">>, NumCell(-1)),
      OrderLine(<<"A">>, <<"Alice">>, <<"VIP">>, NumCell(1)),
      OrderLine(<<"A">>, <<"Alice">>, <<" ">>, NumCell(1)),
      OrderLine(<<"A">>, <<"Alice">>, <<>>, NumCell(0)),
      OrderLine(<<"A">>, <<"Al">>, <<"B", "_", "C">>, NumCell(1)),
      OrderLine(<<"A", "_", "B">>, <<"Ann">>, <<"C">>, NumCell(1)),
      OrderLine(<<"B">>, <<"Bob">>, <<"Guest">>, TextCell),
      OrderLine(<<"B">>, <<"Bob">>, <<"ExecutiveInvite">>, NumCell(1)),
      OrderLine(<<"B">>, <<"Bob">>, <<"constructor">>, NumCell(1)),
      OrderLine(<<>>, <<"Nobody">>, <<"VIP Pass">>, NumCell(1)) }

RECURSIVE SeqsUpTo(_, _)
SeqsUpTo(S, n) ==
    IF n = 0 THEN {<<>>}
    ELSE LET shorter == SeqsUpTo(S, n - 1)
         IN  shorter \cup {Append(q, x) : q \in shorter, x \in S}

EcSheets == {<<>>} \cup {<<EcHeader>> \o lines : lines \in SeqsUpTo(OrderLines, MaxLines)}

MmSheets ==
    { <<>>,
      <<MmHeader>>,
      <<MmHeader, Member(<<"A">>, <<"Alice">>, <<"a@x">>)>>,
      <<MmHeader, Member(<<"A">>, <<"Alice">>, <<"old@x">>),
                  Member(<<" ", "A">>, <<"Alice">>, <<"a@x", " ">>)>> }

SyncStores ==
    { <<>>,
      <<ManualRow(<<"A">>, <<"Alice">>, <<"a@x">>, <<"PriorityPass">>)>>,
      <<ManualRow(<<"A">>, <<"Alice">>, <<"a@x">>, <<>>)>> }

InitSync ==
    /\ rows \in SyncStores
    /\ ecSheet \in EcSheets
    /\ mmSheet \in MmSheets
    /\ now = 0
    /\ call = NoCall
    /\ result = [message |-> "none"]
    /\ successes = [i \in 1..MaxRows |-> <<>>]
    /\ warnings = [i \in 1..MaxRows |-> 0]
    /\ mailed = [i \in 1..MaxRows |-> 0]
    /\ inflight = <<>>
    /\ ui = <<>>

NextSync == syncECData

SpecSync == InitSync /\ [][NextSync]_vars

----------------------------------------------------------------------------
(* The desk and the dashboard, over many sheets *)

MaxStoreRows == 2     \* rows of a sheet the desk starts from

CheckedInAt(row, t) == [row EXCEPT !.checkInTime = <<t>>]

\* rows as a sheet kept by hand may hold them: checked in or not, without
\* an id, without a ticketType, with a blank id, with a ticketType that
\* names a member of Object.prototype
DeskRows ==
    { ManualRow(<<"A">>, <<"Alice">>, <<"a@x">>, <<"PriorityPass">>),
      CheckedInAt(ManualRow(<<"A">>, <<"Alice">>, <<"a@x">>, <<"PriorityPass">>), 0),
      CheckedInAt(ManualRow(<<>>, <<"Nobody">>, <<>>, <<"VIP Pass">>), 0),
      ManualRow(<<"B">>, <<"Bob">>, <<>>, <<>>),
      CheckedInAt(ManualRow(<<"B">>, <<"Bob">>, <<>>, <<"constructor">>), 0),
      ManualRow(<<" ">>, <<"Carol">>, <<>>, <<"GuestPass">>) }

DeskStores == SeqsUpTo(DeskRows, MaxStoreRows)

InitDesk ==
    /\ rows \in DeskStores
    /\ ecSheet = <<EcHeader>>
    /\ mmSheet = <<MmHeader>>
    /\ now = 0
    /\ call = NoCall
    /\ result = [message |-> "none"]
    /\ successes = [i \in 1..MaxRows |-> <<>>]
    /\ warnings = [i \in 1..MaxRows |-> 0]
    /\ mailed = [i \in 1..MaxRows |-> 0]
    /\ inflight = <<>>
    /\ ui = <<>>

NextDesk ==
    \/ \E memberId \in IdInputs : manualCheckIn(memberId)
    \/ getDashboardData

SpecDesk == InitDesk /\ [][NextDesk]_vars

----------------------------------------------------------------------------
(* The web app, over sheets kept by hand *)

IssuedRow(id, name, token) ==
    [ManualRow(id, name, <<"x@x">>, <<"StandardPass">>) EXCEPT
        !.token = token, !.emailSent = "true"]

\* sheets with a ticket out, with the same token on two rows (a row copied
\* by hand), with the first of the two checked in, with a row that has no
\* ticket ahead of the member's row that has one, and with a row whose id
\* cell was cleared after its ticket went out
WebStores ==
    { <<>>,
      <<IssuedRow(<<"A">>, <<"Alice">>, <<"t1">>)>>,
      <<ManualRow(<<"A">>, <<"Alice">>, <<>>, <<>>)>>,
      <<IssuedRow(<<"A">>, <<"Alice">>, <<"t1">>),
        IssuedRow(<<"B">>, <<"Bob">>, <<"t1">>)>>,
      <<CheckedInAt(IssuedRow(<<"A">>, <<"Alice">>, <<"t1">>), 0),
        IssuedRow(<<"B">>, <<"Bob">>, <<"t1">>)>>,
      <<ManualRow(<<"A">>, <<"Alice">>, <<>>, <<>>),
        IssuedRow(<<"A">>, <<"Alice">>, <<"t1">>)>>,
      <<IssuedRow(<<>>, <<"Alice">>, <<"t1">>)>> }

Actions == {"checkIn", "manualCheckIn", "dashboard", "sync"}

\* the token or member id a request may carry: none, the ticket out, a
\* member with rows, and one that is neither ticket nor member
Params == {<<>>, <<"t1">>, <<"A">>, <<"Z">>}

\* the sheet takes every write, or refuses the first one of a request
WriteEnvs == {AllWritten, <<"fail", "ok">>}

InitWeb ==
    /\ rows \in WebStores
    /\ ecSheet = <<EcHeader>>
    /\ mmSheet = <<MmHeader>>
    /\ now = 0
    /\ call = NoCall
    /\ result = [message |-> "none"]
    /\ successes = [i \in 1..MaxRows |-> <<>>]
    /\ warnings = [i \in 1..MaxRows |-> 0]
    /\ mailed = [i \in 1..MaxRows |-> 0]
    /\ inflight = <<>>
    /\ ui = <<>>

NextWeb ==
    \/ \E action \in Actions, param \in Params, writes \in WriteEnvs :
          doGet(action, param, writes)
    \/ \E action \in Actions, param \in Params, writes \in WriteEnvs :
          doPost(action, param, writes)
    \/ Tick

SpecWeb == InitWeb /\ [][NextWeb]_vars

----------------------------------------------------------------------------
(* Two check-in requests side by side *)

\* Apps Script starts one execution per request and Code.gs takes no lock
\* (no LockService call): between the getValues() of one execution and its
\* setValue() the other execution may read and write
Requests == {1, 2}

CheckIns ==
    { [op |-> "checkInUser", arg |-> <<"t1">>],
      [op |-> "manualCheckIn", arg |-> <<"A">>] }

Started(c) ==
    [pc |-> "start", op |-> c.op, arg |-> c.arg, data |-> <<>>,
     outcome |-> [message |-> "none"]]

\* Code.gs 244-245 and 359-360: sheet.getDataRange().getValues()
ReadSheet(r) ==
    /\ inflight[r].pc = "start"
    /\ inflight' = [inflight EXCEPT ![r].pc = "read", ![r].data = rows]
    /\ call' = [op |-> "getValues", arg |-> inflight[r].arg]
    /\ UNCHANGED <<rows, ecSheet, mmSheet, now, result, successes, warnings,
                   mailed, ui>>

\* Code.gs 247-301 and 362-433: the scan of the values read, the setValue()
\* and the return
ScanAndWrite(r) ==
    LET q == inflight[r] IN
    /\ q.pc = "read"
    /\ call' = [op |-> "setValue", arg |-> q.arg]
    /\ IF q.op = "checkInUser"
       THEN CheckInOn(q.data, TokenScan(q.data, q.arg, 1), "Invalid ticket",
                      AllWritten)
       ELSE CheckInOn(q.data, IdResolve(q.data, q.arg), "Member ID not found",
                      AllWritten)
    /\ inflight' = [inflight EXCEPT ![r].pc = "done", ![r].outcome = result']
    /\ UNCHANGED <<ecSheet, mmSheet, now, mailed, ui>>

InitRace ==
    /\ rows \in WebStores
    /\ ecSheet = <<EcHeader>>
    /\ mmSheet = <<MmHeader>>
    /\ now = 0
    /\ call = NoCall
    /\ result = [message |-> "none"]
    /\ successes = [i \in 1..MaxRows |-> <<>>]
    /\ warnings = [i \in 1..MaxRows |-> 0]
    /\ mailed = [i \in 1..MaxRows |-> 0]
    /\ inflight \in [Requests -> {Started(c) : c \in CheckIns}]
    /\ ui = <<>>

NextRace ==
    \/ \E r \in Requests : ReadSheet(r)
    \/ \E r \in Requests : ScanAndWrite(r)
    \/ Tick

SpecRace == InitRace /\ [][NextRace]_vars

----------------------------------------------------------------------------
(* The scanning page *)

MaxLoads == 2         \* screenshots whose image has not loaded yet
MaxInFlight == 2      \* checkIn requests without a response yet

\* page.tsx 11-13: the state of Home after its first render, the camera
\* permission given (part_000 17-31: the effect has started the timer); with
\* it what the page's callbacks hold and what is under way
\*   seenScanning, seenProcessing: isScanning and isProcessing as the last
\*       render saw them (handleScan is remade from isProcessing, the effect
\*       of QRScanner is rerun on isScanning and on handleScan)
\*   interval: the timer of the effect runs; intervalSees: the isProcessing
\*       inside the handleScan that timer's callbacks call
\*   loads: per screenshot not loaded yet, the isProcessing inside the
\*       handleScan its onload will call
\*   scans, manuals: requests without a response yet
\*   sent: checkIn requests sent since scanning was last switched on
FirstRender ==
    [checkInResult |-> "null", isScanning |-> TRUE, isProcessing |-> FALSE,
     seenScanning |-> TRUE, seenProcessing |-> FALSE,
     interval |-> TRUE, intervalSees |-> FALSE,
     loads |-> <<>>, scans |-> 0, manuals |-> 0, sent |-> 0]

\* nothing but the page moves
PageOnly(op) ==
    /\ call' = [op |-> op, arg |-> <<>>]
    /\ UNCHANGED <<rows, ecSheet, mmSheet, now, result, successes, warnings,
                   mailed, inflight>>

\* React renders Home again after a state update: handleScan is remade when
\* isProcessing changed (page.tsx 15-37), and the effect of QRScanner is
\* cleaned up and rerun when isScanning or handleScan changed (part_000
\* 24-66)
Render ==
    /\ ui.seenScanning # ui.isScanning \/ ui.seenProcessing # ui.isProcessing
    /\ ui' = [ui EXCEPT !.seenScanning = ui.isScanning,
                        !.seenProcessing = ui.isProcessing,
                        !.interval = ui.isScanning,
                        !.intervalSees = ui.isProcessing]
    /\ PageOnly("Render")

\* part_000 34-39: the timer fires, takes a screenshot and starts loading it
\* as an image
ScanTick ==
    /\ ui.interval
    /\ Len(ui.loads) < MaxLoads
    /\ ui' = [ui EXCEPT !.loads = Append(@, ui.intervalSees)]
    /\ PageOnly("ScanTick")

Without(s, k) == [j \in 1..(Len(s) - 1) |-> IF j < k THEN s[j] ELSE s[j + 1]]

\* page.tsx 15-26: handleScan, inside which isProcessing is sees, up to the
\* sending of the request
handleScan(page, sees) ==
    IF sees THEN page
    ELSE [page EXCEPT !.isProcessing = TRUE, !.isScanning = FALSE,
                      !.scans = @ + 1, !.sent = @ + 1]

\* part_000 40-58: the image of screenshot k has loaded; with a QR code in
\* it onScan is called and the timer is cleared
ImageLoad(k, found) ==
    /\ k \in 1..Len(ui.loads)
    /\ found => (ui.loads[k] \/ ui.scans < MaxInFlight)
    /\ ui' = IF found
             THEN [handleScan([ui EXCEPT !.loads = Without(@, k)], ui.loads[k])
                      EXCEPT !.interval = FALSE]
             ELSE [ui EXCEPT !.loads = Without(@, k)]
    /\ PageOnly("ImageLoad")

\* page.tsx 26-36: the response to a checkIn request, or its failure, is
\* put on display and isProcessing is taken back
ScanResponse ==
    /\ ui.scans > 0
    /\ ui' = [ui EXCEPT !.scans = @ - 1, !.checkInResult = "scan",
                        !.isProcessing = FALSE]
    /\ PageOnly("ScanResponse")

\* part_002 143-149: the form of the manual check-in is sent; the button is
\* disabled while a request is under way
handleSubmit ==
    /\ ui.manuals = 0
    /\ ui' = [ui EXCEPT !.manuals = 1]
    /\ PageOnly("handleSubmit")

\* page.tsx 39-42, called with the response (part_002 149-150); a request
\* that failed is logged only (part_002 153-154)
handleManualCheckIn(ok) ==
    /\ ui.manuals = 1
    /\ ui' = IF ok
             THEN [ui EXCEPT !.manuals = 0, !.checkInResult = "manual",
                             !.isScanning = FALSE]
             ELSE [ui EXCEPT !.manuals = 0]
    /\ PageOnly("handleManualCheckIn")

\* page.tsx 44-47, from the close button of the result on display
handleDismiss ==
    /\ ui.checkInResult # "null"
    /\ ui' = [ui EXCEPT !.checkInResult = "null", !.isScanning = TRUE,
                        !.sent = 0]
    /\ PageOnly("handleDismiss")

InitPage ==
    /\ rows = <<>>
    /\ ecSheet = <<EcHeader>>
    /\ mmSheet = <<MmHeader>>
    /\ now = 0
    /\ call = NoCall
    /\ result = [message |-> "none"]
    /\ successes = [i \in 1..MaxRows |-> <<>>]
    /\ warnings = [i \in 1..MaxRows |-> 0]
    /\ mailed = [i \in 1..MaxRows |-> 0]
    /\ inflight = <<>>
    /\ ui = FirstRender

NextPage ==
    \/ Render
    \/ ScanTick
    \/ \E k \in 1..MaxLoads, found \in BOOLEAN : ImageLoad(k, found)
    \/ ScanResponse
    \/ handleSubmit
    \/ \E ok \in BOOLEAN : handleManualCheckIn(ok)
    \/ handleDismiss

SpecPage == InitPage /\ [][NextPage]_vars

----------------------------------------------------------------------------
(* Vocabulary of the properties *)

RowIds == 1..Len(rows)

Entries(row) == SplitLines(row.reEntryHistory)

CheckedIn(row) == row.checkInTime # <<>>

\* the step is a call of checkInUser / manualCheckIn
TokenStep == call'.op = "checkInUser"
IdStep == call'.op = "manualCheckIn"
CheckInStep == TokenStep \/ IdStep

\* the rows other than i are what they were, and none was added or removed
OthersUnchanged(i) ==
    /\ Len(rows') = Len(rows)
    /\ \A j \in RowIds : j # i => rows'[j] = rows[j]

\* the matching rows of an id, in scan order
Matching(memberId) == {i \in RowIds : rows[i].id = memberId}

Min(S) == CHOOSE x \in S : \A y \in S : x <= y
Max(S) == CHOOSE x \in S : \A y \in S : x >= y

----------------------------------------------------------------------------
(* Properties of the check-in engine *)

\* C1: for a row with a token and no checkInTime, checkInUser(token) returns
\* SUCCESS and sets the row's checkInTime; for that row once checked in, a
\* call with the same token returns WARNING, leaves checkInTime as it was and
\* appends exactly one entry to the row's reEntryHistory.
C1_FirstThenReEntry ==
    [][\A i \in RowIds :
         (TokenStep /\ Truthy(rows[i].token) /\ call'.arg = rows[i].token) =>
            IF ~CheckedIn(rows[i])
            THEN /\ result'.status = "SUCCESS"
                 /\ rows'[i].checkInTime = <<now>>
                 /\ Entries(rows'[i]) = Entries(rows[i])
            ELSE /\ result'.status = "WARNING"
                 /\ rows'[i].checkInTime = rows[i].checkInTime
                 /\ Len(Entries(rows'[i])) = Len(Entries(rows[i])) + 1
                 /\ SubSeq(Entries(rows'[i]), 1, Len(Entries(rows[i])))
                        = Entries(rows[i])]_vars

\* a token scanned three times: one SUCCESS, then two re-entries
C1_Witness ==
    /\ call.op = "checkInUser"
    /\ result.status = "WARNING"
    /\ \E i \in RowIds :
         /\ rows[i].token = call.arg
         /\ Len(successes[i]) = 1
         /\ warnings[i] = 2
         /\ Len(Entries(rows[i])) = 2

\* C2: a checkInTime, once set, is never cleared and never overwritten, by
\* no operation.
C2_CheckInTimeImmutable ==
    [][\A i \in RowIds :
         CheckedIn(rows[i]) =>
            /\ i <= Len(rows')
            /\ rows'[i].checkInTime = rows[i].checkInTime]_vars

\* a row checked in earlier, scanned again since, with a batch run after it
C2_Witness ==
    /\ call.op \in {"sendTickets", "syncECData"}
    /\ \E i \in RowIds :
         /\ CheckedIn(rows[i])
         /\ rows[i].checkInTime[1] < now
         /\ warnings[i] >= 1

\* C3: at most one SUCCESS is ever returned for a row, whichever of the two
\* entry points is used, and a check-in call that acts on a row that has had
\* its SUCCESS returns WARNING.
C3_OneSuccessPerRow ==
    [][/\ \A i \in 1..MaxRows : Len(successes'[i]) <= 1
       /\ \A i \in RowIds :
            (CheckInStep /\ Len(successes[i]) >= 1 /\ i <= Len(rows')
                /\ rows'[i] # rows[i]) => result'.status = "WARNING"]_vars

\* both rows of one id have had their SUCCESS, one of them re-entries by
\* token and by id
C3_Witness ==
    /\ call.op = "manualCheckIn"
    /\ result.status = "WARNING"
    /\ \E i, j \in RowIds :
         /\ i # j
         /\ rows[i].id = rows[j].id
         /\ Len(successes[i]) = 1 /\ Len(successes[j]) = 1
         /\ Truthy(rows[j].token)
         /\ warnings[j] = 2

\* C4: manualCheckIn on an id that still has an open row returns SUCCESS,
\* sets checkInTime on the first open matching row in scan order and changes
\* nothing else: no other cell of that row, no other row, no history.
C4_FirstOpenRow ==
    [][\A memberId \in IdInputs :
         LET open == {i \in Matching(memberId) : ~CheckedIn(rows[i])} IN
         (IdStep /\ call'.arg = memberId /\ Truthy(memberId) /\ open # {}) =>
            /\ result'.status = "SUCCESS"
            /\ rows'[Min(open)] = [rows[Min(open)] EXCEPT !.checkInTime = <<now>>]
            /\ OthersUnchanged(Min(open))]_vars

\* an id with two rows, the first already in: the second row is checked in
\* by id, the first keeps its time and its history
C4_Witness ==
    /\ call.op = "manualCheckIn"
    /\ result.status = "SUCCESS"
    /\ \E i, j \in RowIds :
         /\ i < j
         /\ rows[i].id = call.arg /\ rows[j].id = call.arg
         /\ CheckedIn(rows[i]) /\ warnings[i] >= 1
         /\ rows[j].checkInTime = <<now>>
         /\ successes[j] = <<result.checkInTime>>

\* an id with two open rows: the first is checked in, the second stays open
C4_WitnessOpenLeft ==
    /\ call.op = "manualCheckIn"
    /\ result.status = "SUCCESS"
    /\ \E i, j \in RowIds :
         /\ i < j
         /\ rows[i].id = call.arg /\ rows[j].id = call.arg
         /\ CheckedIn(rows[i]) /\ ~CheckedIn(rows[j])

\* C5: manualCheckIn on an id all of whose rows are checked in returns
\* WARNING and appends one timestamp to the history of the last matching row
\* in scan order; every other row keeps its history and its check-in time.
C5_LastRowReEntry ==
    [][\A memberId \in IdInputs :
         LET match == Matching(memberId) IN
         (IdStep /\ call'.arg = memberId /\ Truthy(memberId) /\ match # {}
             /\ \A i \in match : CheckedIn(rows[i])) =>
            /\ result'.status = "WARNING"
            /\ Entries(rows'[Max(match)])
                   = Append(Entries(rows[Max(match)]), FormatDate(now))
            /\ rows'[Max(match)].checkInTime = rows[Max(match)].checkInTime
            /\ OthersUnchanged(Max(match))]_vars

\* two rows of one id, both in; the re-entry by id went to the second
C5_Witness ==
    /\ call.op = "manualCheckIn"
    /\ result.status = "WARNING"
    /\ \E i, j \in RowIds :
         /\ i < j
         /\ rows[i].id = call.arg /\ rows[j].id = call.arg
         /\ CheckedIn(rows[i]) /\ CheckedIn(rows[j])
         /\ warnings[i] = 0 /\ warnings[j] = 2
         /\ Len(Entries(rows[j])) = 2

\* C6: a WARNING carries the check-in time the row's SUCCESS carried, the
\* formatted value of the stored checkInTime, not the time of this attempt.
C6_WarningCarriesOriginalTime ==
    [][(CheckInStep /\ result'.status = "WARNING") =>
          \E i \in RowIds :
             /\ rows'[i] # rows[i]
             /\ OthersUnchanged(i)
             /\ Len(successes[i]) = 1
             /\ result'.checkInTime = successes[i][1]
             /\ result'.checkInTime = FormatDate(rows[i].checkInTime[1])]_vars

\* a second re-entry, made at a later second than the check-in
C6_Witness ==
    /\ call.op \in {"checkInUser", "manualCheckIn"}
    /\ result.status = "WARNING"
    /\ result.checkInTime # FormatDate(now)
    /\ \E i \in RowIds :
         /\ warnings[i] = 2
         /\ Entries(rows[i])[2] = FormatDate(now)
         /\ successes[i] = <<result.checkInTime>>

\* C7: a token, or a member id, that matches no row gives an outcome with
\* status ERROR and leaves the sheet as it was.
C7_NoMatchIsError ==
    [][/\ (TokenStep /\ Truthy(call'.arg)
             /\ \A i \in RowIds : rows[i].token # call'.arg) =>
            (result'.status = "ERROR" /\ rows' = rows)
       /\ (IdStep /\ Truthy(call'.arg) /\ Matching(call'.arg) = {}) =>
            (result'.status = "ERROR" /\ rows' = rows)]_vars

\* a foreign token scanned against a sheet that holds issued tokens and a
\* checked-in row
C7_Witness ==
    /\ call = [op |-> "checkInUser", arg |-> <<"bogus">>]
    /\ result.status = "ERROR"
    /\ \E i \in RowIds : Truthy(rows[i].token) /\ CheckedIn(rows[i])

\* C8 (as stated): a call without its input returns an outcome with status
\* ERROR and leaves the sheet alone.
C8_NotProvidedIsError ==
    [][(CheckInStep /\ ~Truthy(call'.arg)) =>
          (result'.status = "ERROR" /\ rows' = rows)]_vars

\* C9: reEntryHistory is append-only: every step keeps the entries of every
\* row as a prefix of its entries afterwards, only a WARNING adds an entry,
\* and it adds exactly one, at the end of one row's history.
C9_HistoryAppendOnly ==
    [][/\ Len(rows') >= Len(rows)
       /\ \A i \in RowIds :
            /\ Len(Entries(rows'[i])) >= Len(Entries(rows[i]))
            /\ SubSeq(Entries(rows'[i]), 1, Len(Entries(rows[i]))) = Entries(rows[i])
       /\ (CheckInStep /\ result'.status = "WARNING") =>
            \E i \in RowIds :
               /\ Entries(rows'[i]) = Append(Entries(rows[i]), FormatDate(now))
               /\ \A j \in RowIds : j # i => Entries(rows'[j]) = Entries(rows[j])
       /\ ~(CheckInStep /\ result'.status = "WARNING") =>
            \A i \in RowIds : Entries(rows'[i]) = Entries(rows[i])]_vars

\* a history of two entries made at different seconds, with a batch run
\* after them
C9_Witness ==
    /\ call.op \in {"sendTickets", "syncECData"}
    /\ \E i \in RowIds :
         /\ Len(Entries(rows[i])) = 2
         /\ Entries(rows[i])[1] # Entries(rows[i])[2]

----------------------------------------------------------------------------
(* Properties of the reconciliation *)

\* a complete run has just ended and the next step is a run on the same
\* sheets (a complete run writes neither ECData nor MemberMaster)
SecondRun ==
    /\ call.op = "syncECData" /\ result.message = "Synced"
    /\ call'.op = "syncECData"
    /\ ecSheet' = ecSheet /\ mmSheet' = mmSheet

\* C10 (as stated): a second run on the same ECData and MemberMaster, with
\* no edit of the Attendees sheet in between, appends no row.
C10_SyncIdempotent ==
    [][SecondRun => (rows' = rows /\ result'.added = 0)]_vars

\* the order lines whose label is made of blanks only: their rows are stored
\* with an empty ticketType and counted back as StandardPass
BlankLabel(line) == Truthy(line.ticketType) /\ ~Truthy(Trim(line.ticketType))

C10_IdempotentWithoutBlankLabels ==
    [][(SecondRun /\ \A k \in 2..Len(ecSheet) : ~BlankLabel(ecSheet[k]))
          => (rows' = rows /\ result'.added = 0)]_vars

\* the step is a reconciliation run that got as far as the write
SyncStep == call'.op = "syncECData" /\ result'.message = "Synced"

\* the (id, canonical ticketType) pair of an order line, and of a row as the
\* sheet reads it (a row without a ticketType reads as StandardPass)
LinePair(line) ==
    <<Trim(line.id), Normalize(Trim(OrElse(line.ticketType, <<"StandardPass">>)))>>

RowPair(row) ==
    <<Trim(row.id), Trim(OrElse(row.ticketType, <<"StandardPass">>))>>

\* the pairs the order lines of a sheet ask for
RequiredPairs(sheet) ==
    {LinePair(sheet[k]) : k \in {j \in 2..Len(sheet) : Truthy(Trim(sheet[j].id))}}

\* the sum of the quantities of the lines from k on that ask for pair
RECURSIVE RequiredQty(_, _, _)
RequiredQty(sheet, k, pair) ==
    IF k > Len(sheet) THEN 0
    ELSE (IF Truthy(Trim(sheet[k].id)) /\ LinePair(sheet[k]) = pair
          THEN Quantity(sheet[k].quantity) ELSE 0)
         + RequiredQty(sheet, k + 1, pair)

\* the rows of data at positions from..Len(data) that belong to pair
RowsOf(data, from, pair) ==
    {k \in from..Len(data) : Truthy(Trim(data[k].id)) /\ RowPair(data[k]) = pair}

\* C11 (as stated): a run appends, for every required (id, canonical
\* ticketType) pair, exactly max(0, required - existing) rows of that pair,
\* existing being the rows of the pair in the sheet before the run.
C11_ShortfallPerKey ==
    [][SyncStep =>
          \A pair \in RequiredPairs(ecSheet) :
             Cardinality(RowsOf(rows', Len(rows) + 1, pair))
                = Max({0, RequiredQty(ecSheet, 2, pair)
                             - Cardinality(RowsOf(rows, 1, pair))})]_vars

\* ids and labels free of the underscore, and no label made of blanks only
PlainLine(line) ==
    /\ ~BlankLabel(line)
    /\ \A k \in 1..Len(line.id) : line.id[k] # "_"
    /\ \A k \in 1..Len(line.ticketType) : line.ticketType[k] # "_"

C11_ShortfallOfPlainLines ==
    [][(SyncStep /\ \A k \in 2..Len(ecSheet) : PlainLine(ecSheet[k])) =>
          \A pair \in RequiredPairs(ecSheet) :
             Cardinality(RowsOf(rows', Len(rows) + 1, pair))
                = Max({0, RequiredQty(ecSheet, 2, pair)
                             - Cardinality(RowsOf(rows, 1, pair))})]_vars

\* C12: a reconciliation run leaves every row that was in the sheet where it
\* was and as it was, token, checkInTime, emailSent and reEntryHistory
\* included; what it adds comes after the last of them.
C12_SyncKeepsExistingRows ==
    [][call'.op = "syncECData" =>
          /\ Len(rows') >= Len(rows)
          /\ \A i \in RowIds : rows'[i] = rows[i]
          /\ Len(rows') = Len(rows) + result'.added]_vars

\* a run that appended rows behind a row that holds a token, a check-in
\* time, the sent mark and a re-entry
C12_Witness ==
    /\ call.op = "syncECData"
    /\ result.added >= 1
    /\ Len(rows) >= 2
    /\ Truthy(rows[1].token) /\ CheckedIn(rows[1])
    /\ rows[1].emailSent = "true" /\ Truthy(rows[1].reEntryHistory)
    /\ ~Truthy(rows[Len(rows)].token) /\ ~CheckedIn(rows[Len(rows)])

\* the entries of the map of required tickets a run builds from the sheet
RequiredMap == RequiredTickets(Tail(ecSheet), 1, <<>>)

\* C13 (as stated): the required quantity a run holds for a key is the sum
\* of the quantities of the order lines whose id and normalized ticket type
\* are those of the key, whatever raw label each line reached the type by.
C13_RequiredIsSumOverLines ==
    [][SyncStep =>
          \A n \in 1..Len(RequiredMap) :
             RequiredMap[n].neededQty
                = RequiredQty(ecSheet, 2,
                      <<RequiredMap[n].id, RequiredMap[n].ticketType>>)]_vars

\* the same for sheets whose ids and labels hold no underscore
C13_SumOverLinesWithoutUnderscore ==
    [][(SyncStep /\ \A k \in 2..Len(ecSheet) :
            /\ \A c \in 1..Len(ecSheet[k].id) : ecSheet[k].id[c] # "_"
            /\ \A c \in 1..Len(ecSheet[k].ticketType) :
                   ecSheet[k].ticketType[c] # "_") =>
          \A n \in 1..Len(RequiredMap) :
             RequiredMap[n].neededQty
                = RequiredQty(ecSheet, 2,
                      <<RequiredMap[n].id, RequiredMap[n].ticketType>>)]_vars

\* a run that summed a price label and the new name of the same type
C13_AliasesSummed ==
    /\ call.op = "syncECData" /\ result.message = "Synced"
    /\ \E n \in 1..Len(RequiredMap) :
         /\ RequiredMap[n].neededQty = 3
         /\ RequiredMap[n].ticketType = <<"PriorityPass">>
    /\ \E j, k \in 2..Len(ecSheet) :
         /\ Trim(ecSheet[j].ticketType) = <<"15400">>
         /\ Trim(ecSheet[k].ticketType) = <<"PriorityPass">>

\* the positions of the rows a step appended
NewRowIds == (Len(rows) + 1)..Len(rows')

\* C14 (as stated): no row a run creates stores a legacy or price label of
\* the ticket configuration; a line under such a label is stored under the
\* canonical type.
C14_NoLegacyLabelStored ==
    [][SyncStep =>
          \A i \in NewRowIds : rows'[i].ticketType \notin LegacyLabels]_vars

\* the price and legacy labels the run does rename are stored canonically
C14_RenamedLabelsStoredCanonical ==
    [][SyncStep =>
          \A i \in NewRowIds :
             rows'[i].ticketType \notin
                 {<<"15400">>, <<"13200">>, <<"1100">>, <<"Invitation">>}]_vars

\* the label of an order line as the run reads it
RawLabel(line) == Trim(OrElse(line.ticketType, <<"StandardPass">>))

\* a label the renaming chain does not handle and the ticket configuration
\* does not list
Unrecognized(label) ==
    /\ label \notin CanonicalTypes \cup LegacyLabels
    /\ label \notin {<<"15,400">>, <<"13,200">>, <<"1,100">>, <<"Guest">>,
                     <<"FreeInvitee">>, <<"ExecutiveInvite">>}

\* what the mapping is to give for a label: the type, and the window
MapsTo(label, ticketType, window) ==
    /\ Normalize(label) = ticketType
    /\ TICKET_CONFIG(Normalize(label)) = window

\* the rows a step appended for id and ticketType carry window
StoredWith(id, ticketType, window) ==
    \A i \in NewRowIds :
       (rows'[i].id = id /\ rows'[i].ticketType = ticketType)
           => rows'[i].startTime = window

\* C15 (as stated): '15400' gives PriorityPass with 18:30-19:00, the
\* executive-invitation label gives VIP Pass with 18:30-19:00, and a label
\* that is not recognized is passed through with the default 11:00-12:00;
\* the rows of a run are stored accordingly.
C15_NormalizationAsSpecified ==
    [][SyncStep =>
          \A k \in {j \in 2..Len(ecSheet) : Truthy(Trim(ecSheet[j].id))} :
             LET label == RawLabel(ecSheet[k])
                 id == Trim(ecSheet[k].id)
             IN  /\ label = <<"15400">> =>
                       /\ MapsTo(label, <<"PriorityPass">>, Evening)
                       /\ StoredWith(id, <<"PriorityPass">>, Evening)
                 /\ label = <<"ExecutiveInvite">> =>
                       /\ MapsTo(label, <<"VIP Pass">>, Evening)
                       /\ StoredWith(id, <<"VIP Pass">>, Evening)
                 /\ Unrecognized(label) =>
                       /\ MapsTo(label, label, Morning)
                       /\ StoredWith(id, label, Morning)]_vars

\* the same for the labels that name no member of Object.prototype
C15_NormalizationOfOwnKeys ==
    [][SyncStep =>
          \A k \in {j \in 2..Len(ecSheet) : Truthy(Trim(ecSheet[j].id))} :
             LET label == RawLabel(ecSheet[k])
                 id == Trim(ecSheet[k].id)
             IN  /\ label = <<"15400">> =>
                       /\ MapsTo(label, <<"PriorityPass">>, Evening)
                       /\ StoredWith(id, <<"PriorityPass">>, Evening)
                 /\ label = <<"ExecutiveInvite">> =>
                       /\ MapsTo(label, <<"VIP Pass">>, Evening)
                       /\ StoredWith(id, <<"VIP Pass">>, Evening)
                 /\ (Unrecognized(label) /\ label \notin ObjectPrototypeKeys) =>
                       /\ MapsTo(label, label, Morning)
                       /\ StoredWith(id, label, Morning)]_vars

----------------------------------------------------------------------------
(* Properties of the tickets *)

\* C16: the rows that hold a token hold pairwise different tokens, in every
\* state that runs of sendTickets, syncECData and check-ins lead to from a
\* sheet whose tokens are pairwise different.
C16_TokensDistinct ==
    \A i, j \in RowIds :
       (i # j /\ Truthy(rows[i].token)) => rows[i].token # rows[j].token

\* two rows of one id that got their tokens in the same run, at the same
\* clock reading
C16_Witness ==
    /\ call.op = "sendTickets"
    /\ \E i, j \in RowIds :
         /\ i < j
         /\ rows[i].id = rows[j].id
         /\ rows[i].token = generateToken(rows[i].id, i + 1, now)
         /\ rows[j].token = generateToken(rows[j].id, j + 1, now)

\* the sent mark of a row, as the script reads it
MarkedSent(row) == row.emailSent \in {"true", "TRUE"}

\* C17: the sent mark of a row is set only by a sendTickets run in which the
\* mail service accepted the e-mail of that row; a row that has the mark is
\* passed over by every later run: no e-mail for it, its token and its mark
\* as they were.
C17_SentOnceAfterDelivery ==
    [][\A i \in RowIds :
         /\ rows'[i].emailSent # rows[i].emailSent =>
               /\ call'.op = "sendTickets"
               /\ rows'[i].emailSent = "true"
               /\ mailed'[i] = mailed[i] + 1
         /\ MarkedSent(rows[i]) =>
               /\ mailed'[i] = mailed[i]
               /\ rows'[i].token = rows[i].token
               /\ rows'[i].emailSent = rows[i].emailSent]_vars

\* a run that sent one ticket and passed over a row sent by an earlier run
C17_Witness ==
    /\ call.op = "sendTickets"
    /\ result.sent = 1
    /\ \E i, j \in RowIds :
         /\ i # j
         /\ rows[i].emailSent = "true" /\ rows[j].emailSent = "true"
         /\ mailed[i] = 1 /\ mailed[j] = 1

----------------------------------------------------------------------------
(* Properties of the dashboard *)

DashboardStep == call'.op = "getDashboardData"

\* the rows of a sheet that have an id, and those of them that have a
\* check-in time
WithId(data) == {i \in 1..Len(data) : data[i].id # <<>>}
WithIdCheckedIn(data) == {i \in WithId(data) : data[i].checkInTime # <<>>}

\* C18: the dashboard's total is the number of rows that have an id, its
\* checkedIn the number of those that have a checkInTime, its notCheckedIn
\* their difference, whatever the sheet holds.
C18_CountsRowsWithId ==
    [][DashboardStep =>
          /\ result'.total = Cardinality(WithId(rows))
          /\ result'.checkedIn = Cardinality(WithIdCheckedIn(rows))
          /\ result'.notCheckedIn = result'.total - result'.checkedIn]_vars

\* a sheet with a checked-in row that has no id beside a row with an id
\* that was checked in at the desk
C18_Witness ==
    /\ call.op = "getDashboardData"
    /\ \E i, j \in RowIds :
         /\ rows[i].id = <<>> /\ CheckedIn(rows[i])
         /\ rows[j].id # <<>> /\ Len(successes[j]) = 1
    /\ result.total = 1 /\ result.checkedIn = 1 /\ result.notCheckedIn = 0

\* C19: on a sheet without attendee rows the dashboard returns total 0,
\* checkedIn 0, notCheckedIn 0 and a breakdown without entries.
C19_EmptyStoreAllZero ==
    (call.op = "getDashboardData" /\ rows = <<>>) =>
        /\ result.total = 0 /\ result.checkedIn = 0 /\ result.notCheckedIn = 0
        /\ DOMAIN result.breakdown = {}

\* the dashboard asked about a sheet that holds the header row only
C19_Witness ==
    /\ call.op = "getDashboardData"
    /\ rows = <<>>
    /\ result.total = 0 /\ DOMAIN result.breakdown = {}

\* the label a row is grouped under
GroupOf(row) == IF row.ticketType = <<>> THEN <<"Unknown">> ELSE row.ticketType

\* the dashboard as a function of the rows alone (a label that names a
\* member of Object.prototype gets no entry of the breakdown)
Summary(data) ==
    [total |-> Cardinality(WithId(data)),
     checkedIn |-> Cardinality(WithIdCheckedIn(data)),
     notCheckedIn |-> Cardinality(WithId(data)) - Cardinality(WithIdCheckedIn(data)),
     breakdown |->
        [t \in {GroupOf(data[i]) : i \in WithId(data)} \ ObjectPrototypeKeys |->
            [total |-> Cardinality({i \in WithId(data) : GroupOf(data[i]) = t}),
             checkedIn |->
                Cardinality({i \in WithIdCheckedIn(data) : GroupOf(data[i]) = t})]]]

\* C20: a dashboard call changes no row, and what it returns is determined
\* by the rows the sheet holds at the call, whatever ran before it.
C20_DashboardPure ==
    [][DashboardStep =>
          /\ rows' = rows /\ ecSheet' = ecSheet /\ mmSheet' = mmSheet
          /\ result' = Summary(rows)]_vars

\* a dashboard call on a sheet the desk has checked a row in on and recorded
\* a re-entry on, another row still open
C20_Witness ==
    /\ call.op = "getDashboardData"
    /\ \E i \in RowIds : Len(successes[i]) = 1 /\ warnings[i] >= 1
    /\ \E j \in RowIds : ~CheckedIn(rows[j]) /\ rows[j].id # <<>>
    /\ result.checkedIn >= 1 /\ result.notCheckedIn >= 1

----------------------------------------------------------------------------
(* Properties of the web app *)

\* the step is a request that reached a setValue() call, and the call threw
WriteFailed ==
    /\ CheckInStep
    /\ ~NotProvided(call'.arg)
    /\ call'.writes[1] = "fail"
    /\ IF TokenStep THEN TokenScan(rows, call'.arg, 1) # 0
                    ELSE IdResolve(rows, call'.arg) # 0

\* C21: when the write of a check-in fails, the request ends with the
\* outcome {success: false, message: the failure's text}, neither SUCCESS nor
\* WARNING, and the write is not made again: the sheet stays as it was even
\* if a second attempt would have gone through.
C21_FailedWriteIsError ==
    [][WriteFailed =>
          /\ result'.success = FALSE
          /\ result'.status \notin {"SUCCESS", "WARNING"}
          /\ result'.message = "Service error: Spreadsheets"
          /\ rows' = rows
          /\ successes' = successes /\ warnings' = warnings]_vars

\* a scan of an issued ticket whose write the sheet refused, the row open
\* as before
C21_Witness ==
    /\ "writes" \in DOMAIN call
    /\ call.op = "checkInUser"
    /\ call.writes = <<"fail", "ok">>
    /\ result.message = "Service error: Spreadsheets"
    /\ \E i \in RowIds :
         /\ rows[i].token = call.arg /\ Truthy(call.arg)
         /\ ~CheckedIn(rows[i])
         /\ successes[i] = <<>>

----------------------------------------------------------------------------
(* Reconciliation without its tables *)

\* C22: when the ECData or the MemberMaster sheet has no rows (it is absent
\* and made on the spot, or is empty), syncECData returns a message that
\* names the sheet to fill, appends no attendee row and changes none.
C22_NoTableNoWrite ==
    [][(call'.op = "syncECData" /\ (ecSheet = <<>> \/ mmSheet = <<>>)) =>
          /\ result'.message \in {"Please fill ECData", "Please fill MemberMaster"}
          /\ result'.added = 0
          /\ rows' = rows]_vars

\* a sync over order lines and attendee rows with no MemberMaster rows has
\* asked for the directory and kept the attendee rows
C22_Witness ==
    /\ call.op = "syncECData"
    /\ result.message = "Please fill MemberMaster"
    /\ Len(ecSheet) > 1
    /\ mmSheet = <<MmHeader>>
    /\ rows # <<>>

----------------------------------------------------------------------------
(* Requests *)

\* the step is a request to the web app; the call last made was one
WebStep == "method" \in DOMAIN call'
WebCall == "method" \in DOMAIN call

\* C23: a request whose action is none of checkIn, manualCheckIn and
\* dashboard returns {success: false, message: 'Invalid action'} and leaves
\* the sheet as it was, and a POST request does to the sheet and returns
\* exactly what doGet does and returns for the same request.
C23_InvalidActionAndPost ==
    [][WebStep =>
          /\ (call'.action \notin {"checkIn", "manualCheckIn", "dashboard"} =>
                 /\ result' = InvalidAction
                 /\ rows' = rows)
          /\ (call'.method = "POST" =>
                 doGetBody(call'.action, call'.arg, call'.writes))]_vars

\* a POST check-in of an issued ticket has checked the row in
C23_PostWitness ==
    /\ WebCall
    /\ call.method = "POST"
    /\ call.action = "checkIn"
    /\ result.status = "SUCCESS"
    /\ \E i \in RowIds : rows[i].token = call.arg /\ CheckedIn(rows[i])

----------------------------------------------------------------------------
(* Requests side by side *)

\* C24: however the snapshot reads and the cell writes of two check-in
\* requests interleave, at most one of them returns SUCCESS for a row and
\* the checkInTime of a row is written at most once.
C24_OneFirstCheckIn ==
    \A i \in RowIds : Len(successes[i]) <= 1

\* a request whose write follows its read with no write of the other request
\* in between (the sheet is still what it read) never checks a row in for the
\* second time
C24_OneFirstCheckInOnFreshRead ==
    [][\A r \in DOMAIN inflight :
          (/\ inflight[r].pc = "read" /\ inflight'[r].pc = "done"
           /\ inflight[r].data = rows
           /\ \A i \in RowIds : Len(successes[i]) <= 1)
          => \A i \in RowIds : Len(successes'[i]) <= 1]_vars

----------------------------------------------------------------------------
(* The desk, call after call *)

\* the rows of an id that are open, and whether the checked-in rows of the
\* id come before all its open rows, as they do after 0, 1, 2, ... desk
\* calls for an id that had no row checked in
OpenRows(memberId) == {i \in Matching(memberId) : ~CheckedIn(rows[i])}

CheckedInOrder(memberId) ==
    \A i \in Matching(memberId) \ OpenRows(memberId), j \in OpenRows(memberId) :
        i < j

\* C25: for an id with N rows, none checked in, the k-th of N successive
\* manualCheckIn calls returns SUCCESS and checks in the k-th row of the id
\* in scan order, and the call after the N-th returns WARNING for the last
\* row of the id.  Stated call by call: with the first k rows of the id
\* checked in and the others open, a call checks in row k+1 with SUCCESS
\* when k < N and gives the WARNING to row N when k = N.  (An id is a
\* non-empty one: a call without id is answered before the sheet is read.)
C25_DeskCallsInScanOrder ==
    [][(/\ IdStep
        /\ Truthy(call'.arg)
        /\ Matching(call'.arg) # {}
        /\ CheckedInOrder(call'.arg))
       => LET M == Matching(call'.arg)
              open == OpenRows(call'.arg)
          IN  IF open # {}
              THEN /\ result'.status = "SUCCESS"
                   /\ CheckedIn(rows'[Min(open)])
                   /\ OthersUnchanged(Min(open))
                   /\ Len(successes'[Min(open)]) = Len(successes[Min(open)]) + 1
                   /\ warnings' = warnings
              ELSE /\ result'.status = "WARNING"
                   /\ rows'[Max(M)].reEntryHistory # rows[Max(M)].reEntryHistory
                   /\ OthersUnchanged(Max(M))
                   /\ warnings' = Bump(warnings, Max(M))
                   /\ successes' = successes]_vars

\* an id with two rows after three desk calls: a SUCCESS for each row and
\* the WARNING on the second
C25_Witness ==
    /\ call.op = "manualCheckIn"
    /\ result.status = "WARNING"
    /\ Len(rows) = 2
    /\ Matching(call.arg) = {1, 2}
    /\ Len(successes[1]) = 1 /\ Len(successes[2]) = 1
    /\ warnings[1] = 0 /\ warnings[2] = 1

----------------------------------------------------------------------------
(* What a check-in writes *)

\* the cells of a row that no check-in writes
Kept(row) ==
    <<row.id, row.name, row.email, row.token, row.emailSent, row.ticketType,
      row.startTime, row.inviter, row.note>>

\* the rows a step has changed
Changed == {i \in RowIds : rows'[i] # rows[i]}

\* C26: a check-in call writes one cell at most: with SUCCESS the
\* checkInTime of the row it resolved to and nothing else, with WARNING the
\* reEntryHistory of that row and nothing else, with any other outcome
\* nothing; id, name, email, token, emailSent, ticketType and startTime of
\* every row stay as they were.
C26_OneCellWritten ==
    [][CheckInStep =>
          /\ Len(rows') = Len(rows)
          /\ \A i \in RowIds : Kept(rows'[i]) = Kept(rows[i])
          /\ IF result'.status = "SUCCESS"
             THEN \E i \in RowIds :
                     /\ Changed = {i}
                     /\ successes'[i] # successes[i]
                     /\ rows'[i].checkInTime # rows[i].checkInTime
                     /\ rows'[i].reEntryHistory = rows[i].reEntryHistory
             ELSE IF result'.status = "WARNING"
             THEN \E i \in RowIds :
                     /\ Changed = {i}
                     /\ warnings'[i] # warnings[i]
                     /\ rows'[i].reEntryHistory # rows[i].reEntryHistory
                     /\ rows'[i].checkInTime = rows[i].checkInTime
             ELSE rows' = rows]_vars

\* a WARNING for a scan of the ticket of the second of two rows, the first
\* one open and without a ticket as before
C26_Witness ==
    /\ call.op = "checkInUser"
    /\ result.status = "WARNING"
    /\ Len(rows) = 2
    /\ warnings[2] = 1
    /\ Entries(rows[2]) # <<>>
    /\ ~CheckedIn(rows[1])

----------------------------------------------------------------------------
(* Tokens on the sheet *)

\* the rows that hold a token
Holding(token) == {i \in RowIds : rows[i].token = token}

\* C27: checkInUser acts on the first row in scan order whose token equals
\* the submitted one: when two rows hold the same token, a call with that
\* token checks in or gives history to the earlier row only, and no token
\* scan changes the later row, returns SUCCESS for it or WARNING for it.
C27_FirstHolderOnly ==
    [][(TokenStep /\ Truthy(call'.arg) /\ Holding(call'.arg) # {}) =>
          LET first == Min(Holding(call'.arg)) IN
          /\ \A j \in RowIds \ {first} :
                /\ rows'[j] = rows[j]
                /\ successes'[j] = successes[j]
                /\ warnings'[j] = warnings[j]
          /\ result'.status \in {"SUCCESS", "WARNING"} =>
                /\ rows'[first] # rows[first]
                /\ result'.id = rows[first].id]_vars

\* two rows under one token, scanned three times: the earlier row was
\* checked in and has two entries, the later row is open
C27_Witness ==
    /\ call.op = "checkInUser"
    /\ Len(rows) = 2
    /\ rows[1].token = rows[2].token /\ rows[1].token = call.arg
    /\ Truthy(call.arg)
    /\ successes[1] # <<>> /\ warnings[1] = 2
    /\ ~CheckedIn(rows[2]) /\ Entries(rows[2]) = <<>>

\* the check-in cells of a row
CheckInState(row) == <<row.checkInTime, row.reEntryHistory>>

\* C28: a row whose token is empty is never checked in and never given a
\* re-entry entry by checkInUser, whatever token is submitted, the empty one
\* included; the check-in state of such a row changes in manualCheckIn
\* steps only.
C28_NoTokenNoScan ==
    [][\A i \in RowIds :
          rows[i].token = <<>> =>
             /\ TokenStep =>
                   /\ rows'[i] = rows[i]
                   /\ successes'[i] = successes[i]
                   /\ warnings'[i] = warnings[i]
             /\ (Len(rows') >= i /\ CheckInState(rows'[i]) # CheckInState(rows[i]))
                   => IdStep]_vars

\* a scan that submitted the empty token over a sheet with an open row
\* without token was turned away, the row open as before
C28_Witness ==
    /\ call.op = "checkInUser"
    /\ call.arg = <<>>
    /\ result.message = "Token not provided"
    /\ \E i \in RowIds : rows[i].token = <<>> /\ ~CheckedIn(rows[i])

----------------------------------------------------------------------------
(* History and warnings *)

\* C29: in every state reached from a sheet that syncECData fills, a row
\* with a non-empty reEntryHistory has its checkInTime set, and its history
\* has as many entries as WARNING outcomes were returned for the row.
C29_HistoryCountsWarnings ==
    \A i \in RowIds :
        /\ Truthy(rows[i].reEntryHistory) => CheckedIn(rows[i])
        /\ Len(Entries(rows[i])) = warnings[i]

\* a row that a sync appended below the first one has two entries after one
\* SUCCESS and two WARNINGs
C29_Witness ==
    \E i \in RowIds :
        /\ i > 1
        /\ Len(successes[i]) = 1
        /\ warnings[i] = 2
        /\ Len(Entries(rows[i])) = 2

----------------------------------------------------------------------------
(* Rows as the sync makes them *)

\* the directory entries of an id, and the e-mail the directory gives for it
DirectoryEntries(id) ==
    {k \in 2..Len(mmSheet) : Truthy(id) /\ Trim(mmSheet[k].id) = id}

DirectoryEmail(id) ==
    IF DirectoryEntries(id) = {} THEN <<>>
    ELSE Trim(mmSheet[Max(DirectoryEntries(id))].email)

\* C30: a row that syncECData creates has token, checkInTime, emailSent and
\* reEntryHistory empty and as email the directory's e-mail for its id, the
\* empty text when the directory has no entry for the id; and a row that is
\* not checked in becomes checked in only in a check-in step that returns
\* SUCCESS for it.
C30_NewRowsStartOpen ==
    [][/\ SyncStep =>
            \A i \in NewRowIds :
               /\ rows'[i].token = <<>>
               /\ rows'[i].checkInTime = <<>>
               /\ rows'[i].emailSent = ""
               /\ rows'[i].reEntryHistory = <<>>
               /\ rows'[i].email = DirectoryEmail(rows'[i].id)
       /\ \A i \in RowIds :
            (~CheckedIn(rows[i]) /\ CheckedIn(rows'[i])) =>
               /\ CheckInStep
               /\ result'.status = "SUCCESS"
               /\ Len(successes'[i]) = Len(successes[i]) + 1]_vars

\* a row the sync made for an id the directory does not hold, without
\* e-mail and ticket, checked in at the desk with its one SUCCESS
C30_Witness ==
    /\ call.op = "manualCheckIn"
    /\ \E i \in RowIds :
         /\ i > 1
         /\ rows[i].id = <<"B">>
         /\ DirectoryEntries(rows[i].id) = {}
         /\ rows[i].email = <<>> /\ rows[i].token = <<>>
         /\ CheckedIn(rows[i])
         /\ Len(successes[i]) = 1
    /\ \E j \in RowIds :
         /\ DirectoryEntries(rows[j].id) # {}
         /\ rows[j].email = <<"a@x">>


----------------------------------------------------------------------------
(* Keys of the reconciliation *)

\* the pairs in use at a run: those the order lines ask for and those of the
\* rows in the sheet
RowPairs(data) ==
    {RowPair(data[k]) : k \in {j \in 1..Len(data) : Truthy(Trim(data[j].id))}}

PairsInUse == RequiredPairs(ecSheet) \cup RowPairs(rows)

KeyOf(pair) == CompositeKey(pair[1], pair[2])

NoUnderscore(pair) ==
    /\ \A c \in 1..Len(pair[1]) : pair[1][c] # "_"
    /\ \A c \in 1..Len(pair[2]) : pair[2][c] # "_"

\* C31: in a run, distinct (id, ticketType) pairs have distinct keys, ids and
\* types with an underscore included, and the rows counted as existing for a
\* pair are the rows of that pair in the sheet, rows entered by hand
\* included: no row of one pair is counted for another.
C31_PairsKeepOwnKeys ==
    [][SyncStep =>
          /\ \A p, q \in PairsInUse : p # q => KeyOf(p) # KeyOf(q)
          /\ \A p \in RequiredPairs(ecSheet) :
                ExistingCount(rows, 1, KeyOf(p))
                   = Cardinality(RowsOf(rows, 1, p))]_vars

\* the same for the pairs without underscore: among them no two share a key
\* and the rows counted are their own when no pair with an underscore is in
\* use
C31_PlainPairsKeepOwnKeys ==
    [][(SyncStep /\ \A p \in PairsInUse : NoUnderscore(p)) =>
          /\ \A p, q \in PairsInUse : p # q => KeyOf(p) # KeyOf(q)
          /\ \A p \in RequiredPairs(ecSheet) :
                ExistingCount(rows, 1, KeyOf(p))
                   = Cardinality(RowsOf(rows, 1, p))]_vars

\* a run over a sheet with a row entered by hand for a pair the lines ask for
C31_ManualRowCounted ==
    /\ call.op = "syncECData" /\ result.message = "Synced"
    /\ result.added = 0
    /\ rows # <<>>
    /\ RequiredPairs(ecSheet) # {}
    /\ RequiredPairs(ecSheet) \subseteq RowPairs(rows)


----------------------------------------------------------------------------
(* Quantities *)

\* the order lines of the sheet that carry an id
IdLines == {k \in 2..Len(ecSheet) : Truthy(Trim(ecSheet[k].id))}

\* the lines a run puts under a key
LinesUnder(key) ==
    {k \in IdLines : KeyOf(LinePair(ecSheet[k])) = key}

PositiveCell(cell) == cell.kind = "num" /\ cell.n > 0

\* C32: every order line with an id adds at least 1 to the required quantity
\* of its key, a line whose quantity cell is missing, zero, not a number or
\* negative adds exactly 1, so the required quantity of a key is never below
\* the number of lines under it.
C32_LineAddsAtLeastOne ==
    [][SyncStep =>
          /\ \A k \in IdLines :
                /\ Quantity(ecSheet[k].quantity) >= 1
                /\ ~PositiveCell(ecSheet[k].quantity)
                      => Quantity(ecSheet[k].quantity) = 1
          /\ \A n \in 1..Len(RequiredMap) :
                RequiredMap[n].neededQty
                   >= Cardinality(LinesUnder(RequiredMap[n].key))]_vars

\* the same for sheets without a negative quantity
C32_AtLeastOneUnlessNegative ==
    [][(SyncStep /\ \A k \in IdLines : ecSheet[k].quantity.n >= 0) =>
          /\ \A k \in IdLines :
                /\ Quantity(ecSheet[k].quantity) >= 1
                /\ ~PositiveCell(ecSheet[k].quantity)
                      => Quantity(ecSheet[k].quantity) = 1
          /\ \A n \in 1..Len(RequiredMap) :
                RequiredMap[n].neededQty
                   >= Cardinality(LinesUnder(RequiredMap[n].key))]_vars

\* a run over a line with a zero quantity and a line without a number: one
\* row was made for each
C32_DefaultsApplied ==
    /\ call.op = "syncECData" /\ result.message = "Synced"
    /\ Len(ecSheet) = 3
    /\ ecSheet[2].quantity = NumCell(0)
    /\ ecSheet[3].quantity = TextCell
    /\ result.added = 2


----------------------------------------------------------------------------
(* The counters of a run *)

\* C33: the matched and the missing count a run reports account for the rows
\* it appended: each new row with an e-mail is one match, each new row
\* without is one miss, and the two counts add up to the rows appended.
C33_CountersPerRow ==
    [][SyncStep =>
          /\ result'.matched
                = Cardinality({i \in NewRowIds : Truthy(rows'[i].email)})
          /\ result'.missing
                = Cardinality({i \in NewRowIds : ~Truthy(rows'[i].email)})
          /\ result'.matched + result'.missing = result'.added]_vars

\* the counters count the keys that rows were made for: those with an e-mail
\* and those without
NewKeys(withEmail) ==
    {<<rows'[i].id, rows'[i].ticketType>> :
        i \in {j \in NewRowIds : Truthy(rows'[j].email) = withEmail}}

C33_CountersPerKey ==
    [][SyncStep =>
          /\ result'.matched = Cardinality(NewKeys(TRUE))
          /\ result'.missing = Cardinality(NewKeys(FALSE))]_vars


----------------------------------------------------------------------------
(* Tokens once issued *)

SendStep == call'.op = "sendTickets"

\* C34: a token that is on a row is never replaced; a sendTickets run that
\* fails for a row after the token was written (QR fetch or e-mail) leaves
\* the token on the row and the sent mark unset, and the run that later
\* delivers the e-mail of the row marks it sent with that same token on it.
C34_TokenKept ==
    [][\A i \in RowIds :
          /\ Truthy(rows[i].token) => rows'[i].token = rows[i].token
          /\ (SendStep /\ Sendable(rows[i])) =>
                /\ Truthy(rows'[i].token)
                /\ \/ /\ mailed'[i] = mailed[i] + 1
                      /\ rows'[i].emailSent = "true"
                   \/ /\ mailed'[i] = mailed[i]
                      /\ rows'[i].emailSent = rows[i].emailSent]_vars

\* a run at clock reading 1 delivered the ticket of the only row, whose
\* token a failed run at clock reading 0 had made
C34_Witness ==
    /\ call.op = "sendTickets"
    /\ now = 1
    /\ result.sent = 1
    /\ Len(rows) = 1
    /\ rows[1].token = generateToken(rows[1].id, 2, 0)
    /\ rows[1].emailSent = "true"
    /\ mailed[1] = 1


----------------------------------------------------------------------------
(* One run of sendTickets *)

\* the rows a run does not pass over, and those of them it cannot send for
Unsent == {i \in RowIds : ~MarkedSent(rows[i])}

Incomplete ==
    {i \in Unsent :
        ~Truthy(rows[i].id) \/ ~Truthy(rows[i].name) \/ ~Truthy(rows[i].email)}

\* C35: a sendTickets run handles every row not marked sent once and goes on
\* after a failure: sent and errors add up to the rows not marked sent when
\* the run began, sent being the rows whose e-mail went out, no row gets two
\* e-mails, and a row without id, name or e-mail is an error that gets no
\* token and no e-mail.
C35_SentPlusErrors ==
    [][SendStep =>
          /\ result'.sent + result'.errors = Cardinality(Unsent)
          /\ result'.sent
                = Cardinality({i \in RowIds : mailed'[i] = mailed[i] + 1})
          /\ \A i \in RowIds : mailed'[i] \in {mailed[i], mailed[i] + 1}
          /\ result'.errors >= Cardinality(Incomplete)
          /\ \A i \in Incomplete :
                rows'[i] = rows[i] /\ mailed'[i] = mailed[i]]_vars

\* a run over two unsent rows: a failure on the first, which keeps its new
\* token and stays unsent, and the e-mail of the second gone out
C35_Witness ==
    /\ call.op = "sendTickets"
    /\ result.sent = 1 /\ result.errors = 1
    /\ Len(rows) = 2
    /\ rows[1].token = generateToken(rows[1].id, 2, now)
    /\ rows[1].emailSent = "" /\ mailed[1] = 0
    /\ rows[2].emailSent = "true" /\ mailed[2] = 1


----------------------------------------------------------------------------
(* The dashboard and the outcomes *)

\* the SUCCESS outcomes returned so far, over all rows
RECURSIVE SuccessesUpTo(_)
SuccessesUpTo(i) ==
    IF i = 0 THEN 0 ELSE Len(successes[i]) + SuccessesUpTo(i - 1)

SuccessCount == SuccessesUpTo(MaxRows)

\* C36: what getDashboardData reports as checkedIn follows the SUCCESS
\* outcomes: it is one higher after a step that returned SUCCESS and as it
\* was after any other step (WARNING, ERROR, a sync, a send), so it never
\* falls and, from a sheet with no row checked in, equals the number of
\* SUCCESS outcomes returned so far.
C36_CheckedInFollowsSuccess ==
    [][/\ Dashboard(rows').checkedIn - Dashboard(rows).checkedIn
            = SuccessCount' - SuccessCount
       /\ SuccessCount' - SuccessCount
            = IF CheckInStep /\ result'.status = "SUCCESS" THEN 1 ELSE 0]_vars

\* in the system that syncs, sends, scans and checks in at the desk over
\* sheets whose rows all carry an id and none of which starts checked in,
\* the dashboard's checkedIn is the number of SUCCESS outcomes so far
C36_CheckedInIsSuccessCount ==
    Dashboard(rows).checkedIn = SuccessCount

C36_CheckedInCounted ==
    /\ call.op = "getDashboardData"
    /\ result.checkedIn = 2
    /\ SuccessCount = 2
    /\ \E i \in RowIds : warnings[i] >= 1


----------------------------------------------------------------------------
(* The breakdown *)

\* the sum of the total (checkedIn) counts of the entries of a breakdown
RECURSIVE SumTotal(_, _)
SumTotal(breakdown, types) ==
    IF types = {} THEN 0
    ELSE LET t == CHOOSE x \in types : TRUE
         IN  breakdown[t].total + SumTotal(breakdown, types \ {t})

RECURSIVE SumCheckedIn(_, _)
SumCheckedIn(breakdown, types) ==
    IF types = {} THEN 0
    ELSE LET t == CHOOSE x \in types : TRUE
         IN  breakdown[t].checkedIn + SumCheckedIn(breakdown, types \ {t})

BreakdownAddsUp(d, data) ==
    /\ SumTotal(d.breakdown, DOMAIN d.breakdown) = d.total
    /\ SumCheckedIn(d.breakdown, DOMAIN d.breakdown) = d.checkedIn
    /\ \A t \in DOMAIN d.breakdown :
          d.breakdown[t].checkedIn <= d.breakdown[t].total
    /\ \A i \in WithId(data) :
          data[i].ticketType = <<>> =>
             /\ <<"Unknown">> \in DOMAIN d.breakdown
             /\ d.breakdown[<<"Unknown">>].total
                   >= Cardinality({j \in WithId(data) : data[j].ticketType = <<>>})

\* C37: whatever the sheet holds, the totals of the breakdown's types add up
\* to total, their checkedIn counts to checkedIn, no type has more checked
\* in than it has rows, and the counted rows without a ticketType are all
\* under the one label 'Unknown'.
C37_BreakdownAddsUp ==
    [][DashboardStep => BreakdownAddsUp(result', rows)]_vars

\* the same for sheets on which no ticketType names a member of
\* Object.prototype
C37_AddsUpForOwnLabels ==
    [][(DashboardStep
          /\ \A i \in RowIds : rows[i].ticketType \notin ObjectPrototypeKeys)
       => BreakdownAddsUp(result', rows)]_vars

\* a dashboard over a row without ticketType and a checked-in row of a
\* named type
C37_UnknownGrouped ==
    /\ call.op = "getDashboardData"
    /\ result.total = 2 /\ result.checkedIn = 1
    /\ DOMAIN result.breakdown = {<<"Unknown">>, <<"PriorityPass">>}
    /\ result.breakdown[<<"Unknown">>].total = 1


----------------------------------------------------------------------------
(* Properties of the scanning page *)

\* C38: from the moment scanning is switched on to the next dismiss the page
\* sends at most one checkIn request, however the ticks of the timer, the
\* image loads under way and the state updates interleave.
C38_OneRequestPerSession ==
    ui.sent <= 1

\* C39: whenever a check-in result is on display, scanning is paused:
\* checkInResult is not null only when isScanning is false, however a scan
\* response under way, a manual check-in result and a dismiss interleave.
C39_ResultPausesScanning ==
    ui.checkInResult # "null" => ~ui.isScanning

\* a result comes to be on display with scanning on in one way only: by the
\* response to a scan that arrives after the result on display was dismissed
C39_OnlyByLateScanResponse ==
    [][(C39_ResultPausesScanning /\ ~C39_ResultPausesScanning')
          => call'.op = "ScanResponse" /\ ui.isScanning]_vars

====
